---- MODULE Spec2Model ----
(***************************************************************************)
(* Cypress test recorder (chrome-extension): the selector generator        *)
(* (content/selector-generator.ts, here src/unnamed/part_001) and the page *)
(* analyzer (content/page-analyzer.ts, here src/unnamed/part_002), with    *)
(* the page analysis of scripts/scaffold-test.js beside the latter; the    *)
(* event recorder of the content script (content/event-recorder.ts and     *)
(* content/index.ts, here src/unnamed/part_003) and the service worker     *)
(* (background/service-worker.ts) with its storage manager (here           *)
(* src/unnamed/part_004).                                                  *)
(*                                                                         *)
(* Strings of the program are sequences of one-character strings, so that  *)
(* escaping, trimming, substring search and regular expressions are        *)
(* computed character by character.  A selector is kept as the pieces the  *)
(* template literals of the source put together; the text spliced into a   *)
(* template is kept raw, and the document's query engine parses it again.  *)
(***************************************************************************)
EXTENDS Integers, Sequences, FiniteSets, TLC

VARIABLES
    doc,               \* the live document: a sequence of element nodes
    edits,             \* DOM mutations made so far (bounded by MaxEdits)
    excludedPatterns,  \* SelectorGenerator.excludedPatterns: RegExp objects
    target,            \* the element generate was last called with (0: none)
    results,           \* what the calls of generate(target) gave, in order
    features,          \* PageFeatures of the current page
    analysis,          \* what the calls of analyze() gave for these features
    hasUsernameField,  \* the feature only the puppeteer-driven analyzer probes
    ported,            \* what its calls of analyze(page) gave for this page
    page,              \* the tables and list containers detectFeatures finds
    detected,          \* what the calls of detectFeatures gave for this page
    settings,          \* excludedClassPatterns the generator was built with
    tested,            \* the class names isFrameworkClass was asked about
    isRecording,       \* EventRecorder.isRecording
    isPaused,          \* EventRecorder.isPaused
    elementValue,      \* the value property of the page's form fields
    pendingInputs,     \* EventRecorder.pendingInputs
    lastInputValues,   \* EventRecorder.lastInputValues
    inputTimers,       \* EventRecorder.inputTimers: element -> timer id
    timeouts,          \* the window's armed setTimeout callbacks
    timerIds,          \* the timer ids setTimeout has handed out so far
    now,               \* Date.now(), in milliseconds
    recorded,          \* the actions EventRecorder.recordAction was given
    burst,             \* the burst of input events in progress on the field
    tabRecordingState, \* service worker: the tab's entry of the map
    heap,              \* the RecordingState and session objects it made
    storage,           \* chrome.storage.local
    toTab,             \* chrome.tabs.sendMessage: messages on their way
    toBackground,      \* chrome.runtime.sendMessage: messages on their way
    pc,                \* where each asynchronous handler stands
    frame,             \* the locals a handler keeps across its awaits
    returned,          \* what the calls of stopRecording resolved to
    tabUpdates         \* the page loads the tab has completed

selVars == <<doc, edits, excludedPatterns, target, results>>
pageVars == <<features, analysis, hasUsernameField, ported>>
detectVars == <<page, detected>>
globVars == <<settings, tested>>
recVars == <<isRecording, isPaused, elementValue, pendingInputs,
             lastInputValues, inputTimers, timeouts, timerIds, now, recorded,
             burst>>
bgVars == <<tabRecordingState, heap, storage, toTab, pc, frame, returned,
            tabUpdates>>
vars == <<doc, edits, excludedPatterns, target, results, features, analysis,
          hasUsernameField, ported, page, detected, settings, tested,
          isRecording, isPaused, elementValue, pendingInputs, lastInputValues,
          inputTimers, timeouts, timerIds, now, recorded, burst,
          tabRecordingState, heap, storage, toTab, toBackground, pc, frame,
          returned, tabUpdates>>

----------------------------------------------------------------------------
(* Bounds of the model.                                                    *)

MaxElems == 2
MaxEdits == 1
MaxCalls == 2
MaxFields == 5
MaxTables == 2
MaxContainers == 2
MaxChildren == 3

----------------------------------------------------------------------------
(* Strings.                                                                *)

Empty == <<>>

Min(a, b) == IF a < b THEN a ELSE b

\* The element of a set of one element: Only({F(x) : x \in {e}}) is F(e)
\* with e, a value the code computes once and keeps in a const, computed
\* once
Only(S) == CHOOSE x \in S : TRUE

Digits == {"0", "1", "2", "3", "4", "5", "6", "7", "8", "9"}
LowerHex == {"a", "b", "c", "d", "e", "f"}
UpperHex == {"A", "B", "C", "D", "E", "F"}
Lower == LowerHex \cup {"g", "h", "i", "j", "k", "l", "m", "n", "o", "p", "q",
                        "r", "s", "t", "u", "v", "w", "x", "y", "z"}
Upper == UpperHex \cup {"G", "H", "I", "J", "K", "L", "M", "N", "O", "P", "Q",
                        "R", "S", "T", "U", "V", "W", "X", "Y", "Z"}
HexDigits == Digits \cup LowerHex \cup UpperHex
Whitespace == {" ", "\n", "\t"}

Quote == "\""
Backslash == "\\"
Newline == "\n"

\* String.prototype.trim
RECURSIVE TrimLeft(_)
TrimLeft(s) ==
    IF s # Empty /\ Head(s) \in Whitespace THEN TrimLeft(Tail(s)) ELSE s

RECURSIVE TrimRight(_)
TrimRight(s) ==
    IF s # Empty /\ s[Len(s)] \in Whitespace
    THEN TrimRight(SubSeq(s, 1, Len(s) - 1))
    ELSE s

Trim(s) == TrimRight(TrimLeft(s))

\* String.prototype.substring(0, n)
Substring0(s, n) == SubSeq(s, 1, Min(n, Len(s)))

\* String.prototype.startsWith
StartsWith(s, p) == Len(p) <= Len(s) /\ SubSeq(s, 1, Len(p)) = p

\* String.prototype.includes
Includes(s, p) ==
    \E i \in 1..(Len(s) - Len(p) + 1) : SubSeq(s, i, i + Len(p) - 1) = p

----------------------------------------------------------------------------
(* The document.  Node 1 is <html> (document.documentElement), node 2 is   *)
(* <head>, node 3 is <body>; the other nodes are created by the page.  A   *)
(* node's children are the nodes that name it as parent, in the order they *)
(* were appended (the order of their numbers); its own text is one text    *)
(* node in front of its child elements.  An attribute that is absent and   *)
(* an attribute that is empty are both the empty string: getAttribute      *)
(* gives null or '' and the source tests both with `value ? ... : null`.   *)

HtmlNode == 1
BodyNode == 3

Node(tag, parent) ==
    [tag |-> tag, parent |-> parent, testid |-> Empty, cy |-> Empty,
     test |-> Empty, ariaLabel |-> Empty, labelledBy |-> Empty,
     role |-> Empty, type |-> Empty, id |-> Empty, htmlFor |-> Empty,
     classes |-> <<>>, text |-> Empty]

EmptyDocument ==
    <<Node("html", 0), Node("head", HtmlNode), Node("body", HtmlNode)>>

Nodes(d) == 1..Len(d)

\* Whether node n is connected to the document
RECURSIVE InDocument(_, _)
InDocument(d, n) ==
    \/ n = HtmlNode
    \/ d[n].parent # 0 /\ InDocument(d, d[n].parent)

\* parent.children, as the numbers of the child elements in order
Children(d, p) ==
    LET RECURSIVE From(_)
        From(n) ==
            IF n > Len(d) THEN <<>>
            ELSE IF d[n].parent = p THEN <<n>> \o From(n + 1)
            ELSE From(n + 1)
    IN  From(1)

\* Array.prototype.indexOf(x) + 1
IndexOf(seq, x) ==
    IF \E i \in DOMAIN seq : seq[i] = x
    THEN CHOOSE i \in DOMAIN seq :
            seq[i] = x /\ \A j \in 1..(i - 1) : seq[j] # x
    ELSE 0

\* Array.prototype.filter
FilterSeq(seq, Keep(_)) ==
    LET RECURSIVE F(_)
        F(r) == IF r = <<>> THEN <<>>
                ELSE IF Keep(Head(r)) THEN <<Head(r)>> \o F(Tail(r))
                ELSE F(Tail(r))
    IN  F(seq)

\* Node.textContent
RECURSIVE textContent(_, _)
textContent(d, n) ==
    LET RECURSIVE Of(_)
        Of(kids) == IF kids = <<>> THEN <<>>
                    ELSE textContent(d, Head(kids)) \o Of(Tail(kids))
    IN  d[n].text \o Of(Children(d, n))

\* Element.getAttribute(name), for the attributes selectors test
Attribute(e, name) ==
    CASE name = "data-testid" -> e.testid
      [] name = "data-cy" -> e.cy
      [] name = "data-test" -> e.test
      [] name = "aria-label" -> e.ariaLabel
      [] name = "aria-labelledby" -> e.labelledBy
      [] name = "role" -> e.role
      [] name = "type" -> e.type
      [] name = "for" -> e.htmlFor
      [] name = "id" -> e.id
      [] OTHER -> Empty

----------------------------------------------------------------------------
(* Selectors.  A selector string is a path of compound selectors joined by *)
(* ' > ', with an optional :contains("...") at its end.  The text a        *)
(* template literal splices in (an attribute value, an escaped identifier, *)
(* the text of :contains) is kept as the raw characters of the string.     *)

Compound(tag, idRaw, classes, attrs, nth, n) ==
    [tag |-> tag, idRaw |-> idRaw, classes |-> classes, attrs |-> attrs,
     nth |-> nth, n |-> n]

Attr(name, raw) == [name |-> name, raw |-> raw]

TagOnly(tag) == Compound(tag, Empty, <<>>, <<>>, "", 0)
AttrOnly(name, raw) == Compound("", Empty, <<>>, <<Attr(name, raw)>>, "", 0)

Selector(path) == [path |-> path, contains |-> FALSE, text |-> Empty]
ContainsSelector(path, text) ==
    [path |-> path, contains |-> TRUE, text |-> text]

\* The empty string
NoSelector == Selector(<<>>)

\* The number of digits of an :nth-...(n) index
DigitCount(n) == IF n < 10 THEN 1 ELSE 2

\* The length of the selector string
CompoundLength(c) ==
    LET RECURSIVE Classes(_)
        Classes(r) == IF r = <<>> THEN 0
                      ELSE 1 + Len(Head(r)) + Classes(Tail(r))
        RECURSIVE Attrs(_)
        Attrs(r) == IF r = <<>> THEN 0
                    ELSE 5 + Len(Head(r).raw) + Attrs(Tail(r))
    IN  (IF c.tag = "" THEN 0 ELSE 1)
        + (IF c.idRaw = Empty THEN 0 ELSE 1 + Len(c.idRaw))
        + Classes(c.classes) + Attrs(c.attrs)
        + (IF c.nth = "" THEN 0 ELSE 3 + DigitCount(c.n))

SelectorLength(sel) ==
    LET RECURSIVE Path(_)
        Path(r) == IF r = <<>> THEN 0
                   ELSE CompoundLength(Head(r)) + Path(Tail(r))
                        + (IF Len(r) > 1 THEN 3 ELSE 0)
    IN  Path(sel.path) + (IF sel.contains THEN 13 + Len(sel.text) ELSE 0)

\* All raw texts spliced into the selector string
RawTexts(sel) ==
    UNION {{c.idRaw} \cup {c.classes[i] : i \in DOMAIN c.classes}
           \cup {c.attrs[i].raw : i \in DOMAIN c.attrs}
           : c \in {sel.path[k] : k \in DOMAIN sel.path}}
    \cup {sel.text}

ContainsMarker == <<":", "c", "o", "n", "t", "a", "i", "n", "s", "(">>

\* selector.includes(':contains(')
IncludesContains(sel) ==
    sel.contains \/ \E t \in RawTexts(sel) : Includes(t, ContainsMarker)

(* The query engine's reading of a double-quoted CSS string whose body is  *)
(* `raw`: an unescaped quote ends the string early and what follows it is  *)
(* no part of an attribute selector, a raw newline makes a bad string, a   *)
(* backslash takes the next character as it is (a hexadecimal escape is    *)
(* read as a character the page's strings do not hold).                    *)
BadChar == "?"

RECURSIVE ParseString(_)
ParseString(raw) ==
    IF raw = Empty THEN [ok |-> TRUE, value |-> Empty]
    ELSE IF Head(raw) = Quote \/ Head(raw) = Newline
    THEN [ok |-> FALSE, value |-> Empty]
    ELSE IF Head(raw) = Backslash
    THEN IF Len(raw) = 1 THEN [ok |-> FALSE, value |-> Empty]
         ELSE LET rest == ParseString(SubSeq(raw, 3, Len(raw)))
                  c == IF raw[2] \in HexDigits THEN BadChar ELSE raw[2]
              IN  [ok |-> rest.ok, value |-> <<c>> \o rest.value]
    ELSE LET rest == ParseString(Tail(raw))
         IN  [ok |-> rest.ok, value |-> <<Head(raw)>> \o rest.value]

IdentChars == Lower \cup Upper \cup Digits \cup {"-", "_"}

\* CSS.escape(value) (CSSOM "serialize an identifier")
CssEscape(value) ==
    LET RECURSIVE From(_)
        From(i) ==
            IF i > Len(value) THEN <<>>
            ELSE LET c == value[i]
                     out ==
                         IF c \in Digits
                            /\ (i = 1 \/ (i = 2 /\ value[1] = "-"))
                         THEN <<Backslash, "3", c, " ">>
                         ELSE IF c = "-" /\ i = 1 /\ Len(value) = 1
                         THEN <<Backslash, c>>
                         ELSE IF c \in IdentChars THEN <<c>>
                         ELSE IF c = Newline \/ c = "\t"
                         THEN <<Backslash, "a", " ">>
                         ELSE <<Backslash, c>>
                 IN  out \o From(i + 1)
    IN  From(1)

\* The query engine's reading of an identifier (after '#' or '.')
RECURSIVE ParseIdent(_)
ParseIdent(raw) ==
    IF raw = Empty THEN [ok |-> TRUE, value |-> Empty]
    ELSE IF Head(raw) = Backslash
    THEN IF Len(raw) = 1 THEN [ok |-> FALSE, value |-> Empty]
         ELSE IF Len(raw) >= 4 /\ raw[2] = "3" /\ raw[3] \in Digits
                 /\ raw[4] = " "
         THEN LET rest == ParseIdent(SubSeq(raw, 5, Len(raw)))
              IN  [ok |-> rest.ok, value |-> <<raw[3]>> \o rest.value]
         ELSE IF raw[2] \in HexDigits
         THEN LET rest == ParseIdent(SubSeq(raw, 3, Len(raw)))
              IN  [ok |-> rest.ok, value |-> <<BadChar>> \o rest.value]
         ELSE LET rest == ParseIdent(SubSeq(raw, 3, Len(raw)))
              IN  [ok |-> rest.ok, value |-> <<raw[2]>> \o rest.value]
    ELSE IF Head(raw) \in IdentChars
    THEN LET rest == ParseIdent(Tail(raw))
         IN  [ok |-> rest.ok, value |-> <<Head(raw)>> \o rest.value]
    ELSE [ok |-> FALSE, value |-> Empty]

\* Whether the query engine accepts the compound selector
CompoundValid(c) ==
    /\ c.idRaw # Empty => ParseIdent(c.idRaw).ok
    /\ \A i \in DOMAIN c.classes :
          c.classes[i] # Empty /\ ParseIdent(c.classes[i]).ok
    /\ \A i \in DOMAIN c.attrs : ParseString(c.attrs[i].raw).ok

\* Whether querySelectorAll(path) returns (TRUE) or throws a SyntaxError
PathValid(path) ==
    /\ path # <<>>
    /\ \A k \in DOMAIN path : CompoundValid(path[k])

\* The position of node n among the siblings Keep lets through
Position(d, n, Keep(_)) ==
    IF d[n].parent = 0 THEN 1
    ELSE IndexOf(FilterSeq(Children(d, d[n].parent), Keep), n)

\* Element.matches(compound)
MatchesCompound(d, n, c) ==
    LET e == d[n]
        SameTag(m) == d[m].tag = e.tag
        AnyTag(m) == TRUE
    IN  /\ c.tag # "" => c.tag = e.tag
        /\ c.idRaw # Empty => ParseIdent(c.idRaw).value = e.id
        /\ \A i \in DOMAIN c.classes :
              \E j \in DOMAIN e.classes :
                  e.classes[j] = ParseIdent(c.classes[i]).value
        /\ \A i \in DOMAIN c.attrs :
              /\ Attribute(e, c.attrs[i].name) # Empty
              /\ Attribute(e, c.attrs[i].name)
                    = ParseString(c.attrs[i].raw).value
        /\ c.nth = "nth-of-type" => Position(d, n, SameTag) = c.n
        /\ c.nth = "nth-child" => Position(d, n, AnyTag) = c.n

\* Element.matches('a > b > c')
RECURSIVE MatchesPath(_, _, _)
MatchesPath(d, n, path) ==
    /\ MatchesCompound(d, n, path[Len(path)])
    /\ \/ Len(path) = 1
       \/ /\ d[n].parent # 0
          /\ MatchesPath(d, d[n].parent, SubSeq(path, 1, Len(path) - 1))

\* document.querySelectorAll(path), for a path the engine accepts
querySelectorAll(d, path) ==
    {n \in Nodes(d) : InDocument(d, n) /\ MatchesPath(d, n, path)}

----------------------------------------------------------------------------
(* Regular expressions, as far as the generator builds them: '^', '$',     *)
(* '.', a character that stands for itself, and 'x*'.  A RegExp object     *)
(* carries its flags and its lastIndex.                                    *)

\* String.prototype.replace('*', '.*'): a string pattern replaces its first
\* occurrence only
ReplaceFirstStar(pattern) ==
    LET i == IndexOf(pattern, "*")
    IN  IF i = 0 THEN pattern
        ELSE SubSeq(pattern, 1, i - 1) \o <<".", "*">>
             \o SubSeq(pattern, i + 1, Len(pattern))

\* new RegExp(...) with the g flag set
NewRegExpGlobal(pattern) ==
    [source |-> <<"^">> \o ReplaceFirstStar(pattern) \o <<"$">>,
     global |-> TRUE, lastIndex |-> 0]

\* new RegExp(`^${pattern.replace('*', '.*')}$`)
NewRegExp(pattern) ==
    [source |-> <<"^">> \o ReplaceFirstStar(pattern) \o <<"$">>,
     global |-> FALSE, lastIndex |-> 0]

AtomMatches(a, c) == (a = "." /\ c # Newline) \/ a = c

\* Whether the regular expression body re matches a prefix of s (all of s
\* when it ends with '$')
RECURSIVE MatchHere(_, _)
MatchHere(re, s) ==
    IF re = <<>> THEN TRUE
    ELSE IF re = <<"$">> THEN s = <<>>
    ELSE IF Len(re) >= 2 /\ re[2] = "*"
    THEN \E k \in 0..Len(s) :
            /\ \A i \in 1..k : AtomMatches(re[1], s[i])
            /\ MatchHere(SubSeq(re, 3, Len(re)), SubSeq(s, k + 1, Len(s)))
    ELSE /\ s # <<>>
         /\ AtomMatches(re[1], s[1])
         /\ MatchHere(Tail(re), Tail(s))

\* RegExp.prototype.test(s) of an expression anchored with '^' and '$': the
\* search starts at lastIndex when the g flag is set (and then '^' matches
\* at index 0 only), and the g flag makes test() write lastIndex
RegExpTest(re, s) ==
    LET start == IF re.global THEN re.lastIndex ELSE 0
        matched == /\ start = 0
                   /\ MatchHere(Tail(re.source), s)
    IN  [matched |-> matched,
         lastIndex |-> IF ~re.global THEN re.lastIndex
                       ELSE IF matched THEN Len(s) ELSE 0]

\* DEFAULT_SETTINGS.excludedClassPatterns
DefaultExcludedClassPatterns ==
    <<<<"n", "g", "-", "*">>,
      <<"s", "c", "-", "*">>,
      <<"c", "s", "s", "-", "*">>,
      <<"j", "s", "x", "-", "*">>,
      <<"_", "*">>,
      <<"s", "t", "y", "l", "e", "_", "_", "*">>,
      <<"M", "u", "i", "*">>,
      <<"c", "h", "a", "k", "r", "a", "-", "*">>,
      <<"a", "n", "t", "-", "*">>,
      <<"t", "w", "-", "*">>>>

\* The constructor of SelectorGenerator
NewSelectorGenerator(patterns) ==
    [i \in DOMAIN patterns |-> NewRegExp(patterns[i])]

\* isFrameworkClass: excludedPatterns.some(pattern => pattern.test(name)),
\* with the RegExp objects as test() leaves them
isFrameworkClass(pats, className) ==
    LET RECURSIVE Some(_, _)
        Some(ps, i) ==
            IF i > Len(ps) THEN [result |-> FALSE, pats |-> ps]
            ELSE LET t == RegExpTest(ps[i], className)
                     after == [ps EXCEPT ![i].lastIndex = t.lastIndex]
                 IN  IF t.matched THEN [result |-> TRUE, pats |-> after]
                     ELSE Some(after, i + 1)
    IN  Some(pats, 1)

\* classes.filter(cls => !this.isFrameworkClass(cls))
stableClasses(pats, classes) ==
    LET RECURSIVE Filter(_, _)
        Filter(ps, rest) ==
            IF rest = <<>> THEN [classes |-> <<>>, pats |-> ps]
            ELSE LET f == isFrameworkClass(ps, Head(rest))
                     more == Filter(f.pats, Tail(rest))
                 IN  [classes |-> IF f.result THEN more.classes
                                  ELSE <<Head(rest)>> \o more.classes,
                      pats |-> more.pats]
    IN  Filter(pats, classes)

Dash == <<"-">>

\* a.includes('-')
HasModifier(cls) == Includes(cls, Dash)

\* a.includes('-') && !a.startsWith('ng-') && !a.startsWith('sc-')
HasModifierNotFramework(cls) ==
    /\ Includes(cls, Dash)
    /\ ~StartsWith(cls, <<"n", "g", "-">>)
    /\ ~StartsWith(cls, <<"s", "c", "-">>)

\* The comparator of the three sorts: classes with a modifier first, then
\* the longer name
CompareClasses(a, b, Modifier(_)) ==
    IF Modifier(a) /\ ~Modifier(b) THEN 0 - 1
    ELSE IF ~Modifier(a) /\ Modifier(b) THEN 1
    ELSE Len(b) - Len(a)

\* Array.prototype.sort(compare): a stable sort
SortClasses(classes, Modifier(_)) ==
    LET RECURSIVE Insert(_, _)
        Insert(sorted, x) ==
            IF sorted = <<>> THEN <<x>>
            ELSE IF CompareClasses(x, Head(sorted), Modifier) < 0
            THEN <<x>> \o sorted
            ELSE <<Head(sorted)>> \o Insert(Tail(sorted), x)
        RECURSIVE Sort(_, _)
        Sort(sorted, rest) ==
            IF rest = <<>> THEN sorted
            ELSE Sort(Insert(sorted, Head(rest)), Tail(rest))
    IN  Sort(<<>>, classes)

----------------------------------------------------------------------------
(* SelectorGenerator (selector-generator.ts): helper methods.              *)

\* isUniqueContains: the regular expression /^(.+?):contains\("(.+?)"\)$/
\* splits the string at its first ':contains("' ('.' matches no newline),
\* then the elements the base selector matches are counted by their text
\* isUniqueContains with `matchCount === 1` turned into `matchCount >= 1`
isUniqueContainsAtLeastOne(d, sel) ==
    LET parses ==
            /\ sel.contains
            /\ sel.path # <<>>
            /\ sel.text # Empty
            /\ \A t \in RawTexts(sel) : ~Includes(t, <<Newline>>)
            /\ \A t \in RawTexts(Selector(sel.path)) :
                  ~Includes(t, ContainsMarker \o <<Quote>>)
        searchText == Trim(sel.text)
    IN  IF ~parses THEN FALSE
        ELSE IF ~PathValid(sel.path) THEN FALSE
        ELSE Cardinality({n \in querySelectorAll(d, sel.path) :
                            Includes(Trim(textContent(d, n)), searchText)})
             >= 1

isUniqueContains(d, sel) ==
    LET parses ==
            /\ sel.contains
            /\ sel.path # <<>>
            /\ sel.text # Empty
            /\ \A t \in RawTexts(sel) : ~Includes(t, <<Newline>>)
            /\ \A t \in RawTexts(Selector(sel.path)) :
                  ~Includes(t, ContainsMarker \o <<Quote>>)
        searchText == Trim(sel.text)
    IN  IF ~parses THEN FALSE
        ELSE IF ~PathValid(sel.path) THEN FALSE
        ELSE Cardinality({n \in querySelectorAll(d, sel.path) :
                            Includes(Trim(textContent(d, n)), searchText)})
             = 1

\* isUnique with `catch { return false }` turned into `catch { return true }`
isUniqueCatchTrue(d, sel) ==
    IF IncludesContains(sel) THEN isUniqueContains(d, sel)
    ELSE IF ~PathValid(sel.path) THEN TRUE
    ELSE Cardinality(querySelectorAll(d, sel.path)) = 1

\* isUnique: a selector the query engine rejects is not unique
isUnique(d, sel) ==
    IF IncludesContains(sel) THEN isUniqueContains(d, sel)
    ELSE IF ~PathValid(sel.path) THEN FALSE
    ELSE Cardinality(querySelectorAll(d, sel.path)) = 1

EscapeChars(value, Escaped(_)) ==
    LET RECURSIVE From(_)
        From(r) == IF r = <<>> THEN <<>> ELSE Escaped(Head(r)) \o From(Tail(r))
    IN  From(value)

\* escapeAttributeValue
escapeAttributeValue(value) ==
    LET Escaped(c) == IF c = Backslash THEN <<Backslash, Backslash>>
                      ELSE IF c = Quote THEN <<Backslash, Quote>>
                      ELSE IF c = Newline THEN <<Backslash, "n">>
                      ELSE <<c>>
    IN  EscapeChars(value, Escaped)

\* escapeTextForContains
escapeTextForContains(text) ==
    LET Escaped(c) == IF c = Backslash THEN <<Backslash, Backslash>>
                      ELSE IF c = Quote THEN <<Backslash, Quote>>
                      ELSE <<c>>
    IN  Trim(EscapeChars(text, Escaped))

\* getDirectTextContent (the empty string stands for null)
getDirectTextContent(d, n) == Trim(d[n].text)

\* The nodes of the document in tree order
DocumentOrder(d) ==
    LET RECURSIVE Walk(_)
        Walk(n) ==
            LET RECURSIVE Kids(_)
                Kids(r) == IF r = <<>> THEN <<>>
                           ELSE Walk(Head(r)) \o Kids(Tail(r))
            IN  <<n>> \o Kids(Children(d, n))
    IN  Walk(HtmlNode)

\* document.getElementById(id) (0 stands for null)
getElementById(d, id) ==
    LET hits == FilterSeq(DocumentOrder(d), LAMBDA n : d[n].id = id)
    IN  IF hits = <<>> THEN 0 ELSE Head(hits)

\* document.querySelector(path) (0 stands for null), for a valid path
querySelector(d, path) ==
    LET hits == FilterSeq(DocumentOrder(d), LAMBDA n : MatchesPath(d, n, path))
    IN  IF hits = <<>> THEN 0 ELSE Head(hits)

FormControlTags == {"input", "select", "textarea"}

\* getAccessibleName: aria-label, then aria-labelledby, then (for a form
\* control) the label the document holds for its id, then its own text.
\* document.querySelector is called outside any try block: a selector the
\* engine rejects throws out of getAccessibleName.
getAccessibleName(d, n) ==
    LET e == d[n]
        labelElement == getElementById(d, e.labelledBy)
        labelPath == <<Compound("label", Empty, <<>>,
                                <<Attr("for", e.id)>>, "", 0)>>
        label == querySelector(d, labelPath)
    IN  IF e.ariaLabel # Empty THEN [threw |-> FALSE, name |-> e.ariaLabel]
        ELSE IF e.labelledBy # Empty /\ labelElement # 0
        THEN [threw |-> FALSE, name |-> Trim(textContent(d, labelElement))]
        ELSE IF e.tag \in FormControlTags /\ e.id # Empty
                /\ ~PathValid(labelPath)
        THEN [threw |-> TRUE, name |-> Empty]
        ELSE IF e.tag \in FormControlTags /\ e.id # Empty /\ label # 0
        THEN [threw |-> FALSE, name |-> Trim(textContent(d, label))]
        ELSE [threw |-> FALSE, name |-> getDirectTextContent(d, n)]

\* getImplicitRole (the empty string stands for null)
getImplicitRole(d, n) ==
    LET tagName == d[n].tag
        type == d[n].type
    IN  CASE tagName = "button" -> <<"b", "u", "t", "t", "o", "n">>
          [] tagName = "a" -> <<"l", "i", "n", "k">>
          [] tagName = "input" ->
                IF type = <<"s", "u", "b", "m", "i", "t">> \/ type = <<"b", "u", "t", "t", "o", "n">> THEN <<"b", "u", "t", "t", "o", "n">>
                ELSE IF type = <<"c", "h", "e", "c", "k", "b", "o", "x">> THEN <<"c", "h", "e", "c", "k", "b", "o", "x">>
                ELSE IF type = <<"r", "a", "d", "i", "o">> THEN <<"r", "a", "d", "i", "o">>
                ELSE IF type = <<"s", "e", "a", "r", "c", "h">> THEN <<"s", "e", "a", "r", "c", "h", "b", "o", "x">>
                ELSE <<"t", "e", "x", "t", "b", "o", "x">>
          [] tagName = "select" -> <<"c", "o", "m", "b", "o", "b", "o", "x">>
          [] tagName = "textarea" -> <<"t", "e", "x", "t", "b", "o", "x">>
          [] tagName = "img" -> <<"i", "m", "g">>
          [] tagName = "nav" -> <<"n", "a", "v", "i", "g", "a", "t", "i", "o", "n">>
          [] tagName = "main" -> <<"m", "a", "i", "n">>
          [] tagName = "header" -> <<"b", "a", "n", "n", "e", "r">>
          [] tagName = "footer" -> <<"c", "o", "n", "t", "e", "n", "t", "i", "n", "f", "o">>
          [] tagName = "aside" -> <<"c", "o", "m", "p", "l", "e", "m", "e", "n", "t", "a", "r", "y">>
          [] tagName = "article" -> <<"a", "r", "t", "i", "c", "l", "e">>
          [] tagName = "section" -> <<"r", "e", "g", "i", "o", "n">>
          [] tagName = "form" -> <<"f", "o", "r", "m">>
          [] tagName = "table" -> <<"t", "a", "b", "l", "e">>
          [] tagName = "ul" -> <<"l", "i", "s", "t">>
          [] tagName = "ol" -> <<"l", "i", "s", "t">>
          [] tagName = "li" -> <<"l", "i", "s", "t", "i", "t", "e", "m">>
          [] OTHER -> Empty

----------------------------------------------------------------------------
(* SelectorGenerator: the nine generators.  A generator gives the selector *)
(* it found (found FALSE stands for null), whether it threw, and the       *)
(* RegExp objects as it left them.                                         *)

Found(sel, pats) ==
    [threw |-> FALSE, found |-> TRUE, sel |-> sel, pats |-> pats]
NotFound(pats) ==
    [threw |-> FALSE, found |-> FALSE, sel |-> NoSelector, pats |-> pats]
Thrown(pats) ==
    [threw |-> TRUE, found |-> FALSE, sel |-> NoSelector, pats |-> pats]

\* The first selector of the list that is unique (for...of with a return)
FirstUnique(d, sels, pats) ==
    LET hits == FilterSeq(sels, LAMBDA sel : isUnique(d, sel))
    IN  IF hits = <<>> THEN NotFound(pats) ELSE Found(Head(hits), pats)

getDataTestId(d, n, pats) ==
    IF d[n].testid # Empty
    THEN Found(Selector(<<AttrOnly("data-testid", d[n].testid)>>), pats)
    ELSE NotFound(pats)

getDataCy(d, n, pats) ==
    IF d[n].cy # Empty
    THEN Found(Selector(<<AttrOnly("data-cy", d[n].cy)>>), pats)
    ELSE NotFound(pats)

getDataTest(d, n, pats) ==
    IF d[n].test # Empty
    THEN Found(Selector(<<AttrOnly("data-test", d[n].test)>>), pats)
    ELSE NotFound(pats)

getAriaLabel(d, n, pats) ==
    IF d[n].ariaLabel # Empty
    THEN Found(Selector(<<AttrOnly("aria-label",
                                   escapeAttributeValue(d[n].ariaLabel))>>),
               pats)
    ELSE NotFound(pats)

\* `[role="${role}"]` with more attributes and classes
RoleCompound(role, attrs, classes) ==
    Compound("", Empty, classes, <<Attr("role", role)>> \o attrs, "", 0)

\* buildRoleTextSelector
buildRoleTextSelector(role, text) ==
    ContainsSelector(<<RoleCompound(role, <<>>, <<>>)>>,
                     escapeTextForContains(Substring0(text, 30)))

\* getRoleWithName from the point where role, the outcome an of
\* getAccessibleName and the stable classes are known
roleWithName(d, pats, role, an, stable) ==
    LET name == an.name
        roleOnlySelector == Selector(<<RoleCompound(role, <<>>, <<>>)>>)
        selector ==
            Selector(<<RoleCompound(
                role, <<Attr("aria-label", escapeAttributeValue(name))>>,
                <<>>)>>)
        textSelector == buildRoleTextSelector(role, name)
        escapedText == escapeTextForContains(Substring0(name, 30))
        SelectorWithClass(cls) ==
            ContainsSelector(<<RoleCompound(role, <<>>, <<CssEscape(cls)>>)>>,
                             escapedText)
        RoleAndClass(cls) ==
            Selector(<<RoleCompound(role, <<>>, <<CssEscape(cls)>>)>>)
    IN  IF role = Empty THEN NotFound(pats)
        ELSE IF an.threw THEN Thrown(pats)
        ELSE IF name = Empty
        THEN IF isUnique(d, roleOnlySelector)
             THEN Found(roleOnlySelector, pats)
             ELSE NotFound(pats)
        ELSE IF isUnique(d, selector) THEN Found(selector, pats)
        ELSE IF SelectorLength(textSelector) > 0 /\ isUnique(d, textSelector)
        THEN Found(textSelector, pats)
        ELSE Only({IF byClass.found THEN byClass
                   ELSE IF isUnique(d, roleOnlySelector)
                   THEN Found(roleOnlySelector, stable.pats)
                   ELSE NotFound(stable.pats) :
                   byClass \in {Only({
                       FirstUnique(
                           d,
                           [i \in DOMAIN sortedClasses |->
                               SelectorWithClass(sortedClasses[i])]
                           \o [i \in DOMAIN sortedClasses |->
                                  RoleAndClass(sortedClasses[i])],
                           stable.pats) :
                       sortedClasses \in
                           {SortClasses(stable.classes, HasModifier)}})}})

getRoleWithName(d, n, pats) ==
    Only({roleWithName(d, pats, role, an, stable) :
            role \in {IF d[n].role # Empty THEN d[n].role
                      ELSE getImplicitRole(d, n)},
            an \in {getAccessibleName(d, n)},
            stable \in {stableClasses(pats, d[n].classes)}})

\* isDynamicId: the eight patterns for generated ids
isDynamicId(id) ==
    LET n == Len(id)
        AllIn(from, to, S) == \A i \in from..to : id[i] \in S
        Letters == Lower \cup Upper
        \* the index of the one separator sep with letters in front of it
        Split(sep) == CHOOSE k \in 0..n :
                        \/ k = 0 /\ ~\E j \in 2..n :
                              id[j] = sep /\ AllIn(1, j - 1, Letters)
                        \/ k >= 2 /\ id[k] = sep /\ AllIn(1, k - 1, Letters)
    IN  \/ n >= 8 /\ AllIn(1, n, HexDigits)
        \/ n >= 1 /\ AllIn(1, n, Digits)
        \/ LET k == Split("-")
           IN  k # 0 /\ k < n /\ AllIn(k + 1, n, Digits)
        \/ /\ n >= 4 /\ id[1] = ":" /\ id[2] = "r" /\ id[n] = ":"
           /\ AllIn(3, n - 1, Lower \cup Digits)
        \/ /\ n >= 6 /\ SubSeq(id, 1, 5) = <<"e", "m", "b", "e", "r">>
           /\ AllIn(6, n, Digits)
        \/ /\ n >= 7 /\ SubSeq(id, 1, 6) = <<"u", "i", "-", "i", "d", "-">>
           /\ AllIn(7, n, Digits)
        \/ /\ n >= 5 /\ SubSeq(id, 1, 4) = <<"e", "x", "t", "-">>
           /\ AllIn(5, n, Digits)
        \/ LET k == Split("_")
           IN  k # 0 /\ n - k >= 4 /\ AllIn(k + 1, n, HexDigits)

\* getUniqueId without its isDynamicId test
getUniqueIdAnyShape(d, n, pats) ==
    Only({IF d[n].id = Empty THEN NotFound(pats)
          ELSE IF isUnique(d, selector) THEN Found(selector, pats)
          ELSE NotFound(pats) :
          selector \in {Selector(<<Compound("", CssEscape(d[n].id), <<>>,
                                            <<>>, "", 0)>>)}})

getUniqueId(d, n, pats) ==
    Only({IF d[n].id = Empty THEN NotFound(pats)
          ELSE IF isDynamicId(d[n].id) THEN NotFound(pats)
          ELSE IF isUnique(d, selector) THEN Found(selector, pats)
          ELSE NotFound(pats) :
          selector \in {Selector(<<Compound("", CssEscape(d[n].id), <<>>,
                                            <<>>, "", 0)>>)}})

TextTags == {"button", "a", "label", "span", "h1", "h2", "h3", "h4", "h5",
             "h6"}

MaxTextLength == 50

\* getTextSelector from the point where the tag, the text, the escaped text
\* and the sorted stable classes are known
textSelectorOf(d, pats, tagName, text, escaped, stable, sortedClasses) ==
    LET textOnlySelector == ContainsSelector(<<TagOnly(tagName)>>, escaped)
        withClass ==
            [i \in DOMAIN sortedClasses |->
                ContainsSelector(
                    <<Compound(tagName, Empty,
                               <<CssEscape(sortedClasses[i])>>, <<>>, "", 0)>>,
                    escaped)]
    IN  IF tagName \notin TextTags THEN NotFound(pats)
        ELSE IF text = Empty \/ Len(text) > MaxTextLength THEN NotFound(pats)
        ELSE IF isUnique(d, textOnlySelector)
        THEN Found(textOnlySelector, pats)
        ELSE FirstUnique(d, withClass, stable.pats)

getTextSelector(d, n, pats) ==
    Only({textSelectorOf(d, pats, d[n].tag, text, escaped, stable,
                         sortedClasses) :
            text \in {getDirectTextContent(d, n)},
            escaped \in {escapeTextForContains(getDirectTextContent(d, n))},
            stable \in {stableClasses(pats, d[n].classes)},
            sortedClasses \in
                {SortClasses(stableClasses(pats, d[n].classes).classes,
                             HasModifier)}})

\* getStableClassSelector from the point where the stable classes and
\* their sorted list are known
stableClassSelectorOf(d, pats, tagName, classes, stable, sortedClasses) ==
    LET len == Len(sortedClasses)
        With(is) ==
            Selector(<<Compound(tagName, Empty,
                                [k \in DOMAIN is |->
                                    CssEscape(sortedClasses[is[k]])],
                                <<>>, "", 0)>>)
        singles == [i \in 1..len |-> With(<<i>>)]
        \* for (i = 0; i < min(len, 3); i++) for (j = i + 1; j < min(len, 4); j++)
        RECURSIVE Pairs(_, _)
        Pairs(i, j) ==
            IF i > Min(len, 3) THEN <<>>
            ELSE IF j > Min(len, 4) THEN Pairs(i + 1, i + 2)
            ELSE <<With(<<i, j>>)>> \o Pairs(i, j + 1)
        pairs == IF len >= 2 THEN Pairs(1, 2) ELSE <<>>
        triple == IF len >= 3 THEN <<With(<<1, 2, 3>>)>> ELSE <<>>
    IN  IF classes = <<>> THEN NotFound(pats)
        ELSE IF stable.classes = <<>> THEN NotFound(stable.pats)
        ELSE FirstUnique(d, singles \o pairs \o triple, stable.pats)

getStableClassSelector(d, n, pats) ==
    Only({stableClassSelectorOf(d, pats, d[n].tag, d[n].classes, stable,
                                sortedClasses) :
            stable \in {stableClasses(pats, d[n].classes)},
            sortedClasses \in
                {SortClasses(stableClasses(pats, d[n].classes).classes,
                             HasModifierNotFramework)}})

\* getCssPath: maxDepth
maxDepth == 5

\* The path getCssPath collects: from the element up to, not including,
\* document.body, at most maxDepth levels
cssPathSegments(d, n) ==
    LET Segment(cur) ==
            LET tagName == d[cur].tag
                siblings == FilterSeq(Children(d, d[cur].parent),
                                      LAMBDA m : d[m].tag = tagName)
            IN  IF d[cur].parent # 0 /\ Len(siblings) > 1
                THEN Compound(tagName, Empty, <<>>, <<>>, "nth-of-type",
                              IndexOf(siblings, cur))
                ELSE TagOnly(tagName)
        RECURSIVE Up(_, _)
        Up(cur, depth) ==
            IF cur = 0 \/ cur = BodyNode \/ depth >= maxDepth THEN <<>>
            ELSE Up(d[cur].parent, depth + 1) \o <<Segment(cur)>>
    IN  Up(n, 0)

getCssPath(d, n, pats) ==
    Only({IF path = <<>> THEN NotFound(pats)
          ELSE IF isUnique(d, Selector(path)) THEN Found(Selector(path), pats)
          ELSE NotFound(pats) :
          path \in {cssPathSegments(d, n)}})

\* buildFallbackPath: tag:nth-child(index) from the element up to, not
\* including, document.documentElement
buildFallbackPath(d, n) ==
    LET Segment(cur) ==
            IF d[cur].parent # 0
            THEN Compound(d[cur].tag, Empty, <<>>, <<>>, "nth-child",
                          IndexOf(Children(d, d[cur].parent), cur))
            ELSE TagOnly(d[cur].tag)
        RECURSIVE Up(_)
        Up(cur) ==
            IF cur = 0 \/ cur = HtmlNode THEN <<>>
            ELSE Up(d[cur].parent) \o <<Segment(cur)>>
    IN  Selector(Up(n))

----------------------------------------------------------------------------
(* SelectorGenerator.generate.                                             *)

Strategy(strategy, confidence) ==
    [strategy |-> strategy, confidence |-> confidence]

\* The strategy table with the id strategy in front of the role strategy
strategiesIdFirst ==
    <<Strategy("data-testid", 100), Strategy("data-cy", 100),
      Strategy("data-test", 100), Strategy("aria-label", 95),
      Strategy("id", 85), Strategy("role", 90),
      Strategy("text", 80), Strategy("class", 60), Strategy("css-path", 40)>>

\* The strategy table of generate, in priority order
strategies ==
    <<Strategy("data-testid", 100), Strategy("data-cy", 100),
      Strategy("data-test", 100), Strategy("aria-label", 95),
      Strategy("role", 90), Strategy("id", 85),
      Strategy("text", 80), Strategy("class", 60), Strategy("css-path", 40)>>

\* generator.call(this, element)
generator(strategy, d, n, pats) ==
    CASE strategy = "data-testid" -> getDataTestId(d, n, pats)
      [] strategy = "data-cy" -> getDataCy(d, n, pats)
      [] strategy = "data-test" -> getDataTest(d, n, pats)
      [] strategy = "aria-label" -> getAriaLabel(d, n, pats)
      [] strategy = "role" -> getRoleWithName(d, n, pats)
      [] strategy = "id" -> getUniqueId(d, n, pats)
      [] strategy = "text" -> getTextSelector(d, n, pats)
      [] strategy = "class" -> getStableClassSelector(d, n, pats)
      [] strategy = "css-path" -> getCssPath(d, n, pats)

Alternative(sel, strategy, confidence) ==
    [selector |-> sel, strategy |-> strategy, confidence |-> confidence]

SelectorResult(sel, strategy, confidence, unique, alternatives) ==
    [threw |-> FALSE, selector |-> sel, strategy |-> strategy,
     confidence |-> confidence, isUnique |-> unique,
     alternatives |-> alternatives]

\* What the caller of generate sees when an error leaves it
Threw ==
    [threw |-> TRUE, selector |-> NoSelector, strategy |-> "",
     confidence |-> 0, isUnique |-> FALSE, alternatives |-> <<>>]

\* alternatives.slice(0, 5)
MaxAlternatives == 5

\* The fallback result carrying the weight the strategy table gives css-path
FallbackConfidenceOfTable == strategies[Len(strategies)].confidence

\* The confidence of the fallback result of generate
FallbackConfidence == 30

\* What one iteration of the for...of loop of generate does with the
\* outcome g of the strategy's generator: its selector is kept when it is
\* unique, as the best result or as an alternative
keepIfUnique(d, s, acc, g) ==
    LET result == Alternative(g.sel, s.strategy, s.confidence)
    IN  IF g.threw THEN [acc EXCEPT !.threw = TRUE, !.pats = g.pats]
        ELSE IF g.found /\ SelectorLength(g.sel) > 0 /\ isUnique(d, g.sel)
        THEN IF ~acc.hasBest
             THEN [acc EXCEPT !.hasBest = TRUE, !.best = result,
                              !.pats = g.pats]
             ELSE [acc EXCEPT !.alternatives = Append(@, result),
                              !.pats = g.pats]
        ELSE [acc EXCEPT !.pats = g.pats]

\* One iteration of the loop: generator.call(this, element), once
strategyStep(d, n, s, acc) ==
    Only({keepIfUnique(d, s, acc, g) :
            g \in {generator(s.strategy, d, n, acc.pats)}})

\* The for...of loop of generate over the strategy table, from its i-th
\* entry on; an error thrown by a generator ends it
RECURSIVE strategyLoopFrom(_, _, _, _)
strategyLoopFrom(d, n, i, acc) ==
    IF i > Len(strategies) \/ acc.threw THEN acc
    ELSE Only({strategyLoopFrom(d, n, i + 1, next) :
                 next \in {strategyStep(d, n, strategies[i], acc)}})

strategyLoop(d, n, pats) ==
    strategyLoopFrom(d, n, 1,
                     [threw |-> FALSE, hasBest |-> FALSE,
                      best |-> Alternative(NoSelector, "", 0),
                      alternatives |-> <<>>, pats |-> pats])

\* The fallback of generate: getCssPath(element) || buildFallbackPath(element)
\* with strategy css-path, given the outcome `again` of getCssPath
fallbackResult(d, n, alternatives, again) ==
    Only({[result |-> SelectorResult(cssPath, "css-path", FallbackConfidence,
                                     isUnique(d, cssPath), alternatives),
           pats |-> again.pats] :
          cssPath \in {IF again.found /\ SelectorLength(again.sel) > 0
                       THEN again.sel
                       ELSE buildFallbackPath(d, n)}})

\* generate after its loop over the strategies
generateAfterLoop(d, n, loop) ==
    LET alternatives == Substring0(loop.alternatives, MaxAlternatives)
    IN  IF loop.threw THEN [result |-> Threw, pats |-> loop.pats]
        ELSE IF loop.hasBest
        THEN [result |-> SelectorResult(loop.best.selector,
                                        loop.best.strategy,
                                        loop.best.confidence, TRUE,
                                        alternatives),
              pats |-> loop.pats]
        ELSE Only({fallbackResult(d, n, alternatives, again) :
                     again \in {getCssPath(d, n, loop.pats)}})

\* generate(element): the result and the RegExp objects as it leaves them
generate(d, n, pats) ==
    Only({generateAfterLoop(d, n, loop) : loop \in {strategyLoop(d, n, pats)}})

----------------------------------------------------------------------------
(* The page and the recorder, as far as the generator sees them: the page  *)
(* builds its document, and generate is called with one of its elements.   *)

Tags == {"div", "button", "input"}

V_t1 == <<"t", "1">>
V_quoted == <<"q", "\"", "1">>
V_c1 == <<"c", "1">>
V_d1 == <<"d", "1">>
V_Save == <<"S", "a", "v", "e">>
V_Sa == <<"S", "a">>
V_main == <<"m", "a", "i", "n">>
V_ember1 == <<"e", "m", "b", "e", "r", "1">>
V_idQuoted == <<"a", "\"", "b">>
V_hexHash == <<"a", "1", "b", "2", "c", "3", "d", "4">>
V_digits == <<"4", "2">>
V_prefixNumber == <<"r", "o", "w", "-", "7">>
V_reactId == <<":", "r", "0", ":">>
V_uiId == <<"u", "i", "-", "i", "d", "-", "1">>
V_extId == <<"e", "x", "t", "-", "1">>
V_prefixHash == <<"b", "t", "n", "_", "a", "1", "b", "2">>
V_button == <<"b", "u", "t", "t", "o", "n">>
V_item == <<"i", "t", "e", "m">>
V_ngx == <<"n", "g", "-", "x">>
V_btnPrimary == <<"b", "t", "n", "-", "p">>
V_card == <<"c", "a", "r", "d">>
V_row == <<"r", "o", "w">>
V_lg == <<"l", "g">>

\* The values the page gives each attribute
AttributeValues ==
    [testid |-> {V_t1, V_quoted}, cy |-> {V_c1}, test |-> {V_d1},
     ariaLabel |-> {V_Save}, labelledBy |-> {V_main}, role |-> {V_button},
     id |-> {V_main, V_idQuoted, V_hexHash, V_digits, V_prefixNumber,
             V_reactId, V_ember1, V_uiId, V_extId, V_prefixHash},
     htmlFor |-> {V_main},
     text |-> {V_Save, V_Sa}]

ClassNames == {V_item, V_ngx, V_btnPrimary}

\* A page with one button that carries every kind of attribute
AnnotatedDocument ==
    Append(EmptyDocument,
           [Node("button", BodyNode) EXCEPT
               !.testid = V_t1, !.cy = V_c1, !.test = V_d1,
               !.ariaLabel = V_Save, !.role = V_button, !.id = V_main,
               !.classes = <<V_ngx, V_item>>, !.text = V_Sa])

\* A page with two sibling buttons of the same class and the same text
TwinDocument ==
    EmptyDocument
    \o <<[Node("button", BodyNode) EXCEPT !.classes = <<V_item>>,
                                          !.text = V_Save],
         [Node("button", BodyNode) EXCEPT !.classes = <<V_item>>,
                                          !.text = V_Save]>>

\* A page with a button of five classes, a button that shares four of them
\* and a button that has the fifth
StyledDocument ==
    EmptyDocument
    \o <<[Node("button", BodyNode) EXCEPT
             !.classes = <<V_btnPrimary, V_item, V_card, V_row, V_lg>>],
         [Node("button", BodyNode) EXCEPT
             !.classes = <<V_btnPrimary, V_item, V_card, V_row>>],
         [Node("button", BodyNode) EXCEPT !.classes = <<V_lg>>]>>

InitSel ==
    /\ doc \in {EmptyDocument, AnnotatedDocument, TwinDocument, StyledDocument}
    /\ edits = 0
    /\ settings = DefaultExcludedClassPatterns
    /\ excludedPatterns = NewSelectorGenerator(settings)
    /\ tested = <<>>
    /\ target = 0
    /\ results = <<>>

\* parent.appendChild(document.createElement(tag)); parent 0 leaves the new
\* element out of the document
CreateElement(tag, parent) ==
    /\ Len(doc) < BodyNode + MaxElems
    /\ doc' = Append(doc, Node(tag, parent))
    /\ target' = 0
    /\ results' = <<>>
    /\ UNCHANGED <<edits, excludedPatterns>>
    /\ UNCHANGED <<pageVars, detectVars, globVars, recVars, bgVars,
                   toBackground>>

\* element.setAttribute(name, value), element.textContent = value
SetAttribute(n, name, value) ==
    /\ edits < MaxEdits
    /\ doc[n][name] = Empty
    /\ doc' = [doc EXCEPT ![n][name] = value]
    /\ edits' = edits + 1
    /\ target' = 0
    /\ results' = <<>>
    /\ UNCHANGED <<excludedPatterns>>
    /\ UNCHANGED <<pageVars, detectVars, globVars, recVars, bgVars,
                   toBackground>>

\* element.classList.add(cls)
AddClass(n, cls) ==
    /\ edits < MaxEdits
    /\ \A i \in DOMAIN doc[n].classes : doc[n].classes[i] # cls
    /\ doc' = [doc EXCEPT ![n].classes = Append(@, cls)]
    /\ edits' = edits + 1
    /\ target' = 0
    /\ results' = <<>>
    /\ UNCHANGED <<excludedPatterns>>
    /\ UNCHANGED <<pageVars, detectVars, globVars, recVars, bgVars,
                   toBackground>>

\* selectorGenerator.generate(element)
Generate(n) ==
    /\ target \in {0, n}
    /\ Len(results) < MaxCalls
    /\ \E g \in {generate(doc, n, excludedPatterns)} :
          /\ results' = Append(results, g.result)
          /\ excludedPatterns' = g.pats
    /\ target' = n
    /\ UNCHANGED <<doc, edits>>
    /\ UNCHANGED <<pageVars, detectVars, globVars, recVars, bgVars,
                   toBackground>>

NextSel ==
    \/ \E tag \in Tags, parent \in {0} \cup (BodyNode..Len(doc)) :
          CreateElement(tag, parent)
    \/ \E n \in (BodyNode + 1)..Len(doc), name \in DOMAIN AttributeValues :
          \E value \in AttributeValues[name] : SetAttribute(n, name, value)
    \/ \E n \in (BodyNode + 1)..Len(doc), cls \in ClassNames : AddClass(n, cls)
    \/ \E n \in BodyNode..Len(doc) : Generate(n)

----------------------------------------------------------------------------
(* The class filter of a generator built with a configured pattern list.   *)

V_glob_m == <<"*", "-", "m", "-", "*">>
V_glob_v1 == <<"v", "1", ".", "*">>

\* The pattern lists a session is configured with
PatternLists ==
    {DefaultExcludedClassPatterns,
     <<V_glob_m>>,
     <<V_glob_v1>>,
     <<<<"n", "g", "-", "*">>, V_glob_m>>}

\* The class names elements of the page carry
PageClassNames ==
    ClassNames
    \cup {<<"a", "-", "m", "-", "b">>, <<"a", "-", "m">>,
          <<"v", "1", "x">>, <<"v", "1", ".", "2">>}

\* new SelectorGenerator(excludedPatterns), before its first call
InitGlob ==
    /\ doc = EmptyDocument
    /\ edits = 0
    /\ settings \in PatternLists
    /\ excludedPatterns = NewSelectorGenerator(settings)
    /\ target = 0
    /\ results = <<>>
    /\ tested = <<>>

\* this.isFrameworkClass(cls), for one class of an element
IsFrameworkClass(className) ==
    /\ Len(tested) < MaxCalls
    /\ \E f \in {isFrameworkClass(excludedPatterns, className)} :
          /\ tested' = Append(tested, [className |-> className,
                                       result |-> f.result])
          /\ excludedPatterns' = f.pats
    /\ UNCHANGED <<doc, edits, target, results, settings>>
    /\ UNCHANGED <<pageVars, detectVars, recVars, bgVars, toBackground>>

NextGlob == \E className \in PageClassNames : IsFrameworkClass(className)

----------------------------------------------------------------------------
(* PageAnalyzer (page-analyzer.ts).                                        *)

PageTypes == {"login-form", "registration-form", "contact-form", "search",
              "table", "list", "detail", "generic"}

BoolFeatures == {"hasPasswordField", "hasEmailField", "hasSearchInput",
                 "hasTable", "hasList", "hasConfirmPassword", "hasTextarea",
                 "hasResultsContainer", "hasSingleH1", "hasMainContent",
                 "hasImages"}

\* The feature vector of a page with no element that any probe looks for
NoFeatures ==
    [hasPasswordField |-> FALSE, hasEmailField |-> FALSE,
     hasSearchInput |-> FALSE, hasTable |-> FALSE, hasList |-> FALSE,
     formFieldCount |-> 0, hasConfirmPassword |-> FALSE,
     hasTextarea |-> FALSE, hasResultsContainer |-> FALSE,
     hasSingleH1 |-> FALSE, hasMainContent |-> FALSE, hasImages |-> FALSE]

\* classifyPage with the login rule's field count test off by one
classifyPageLoginOffByOne(f) ==
    IF f.hasPasswordField /\ ~f.hasConfirmPassword /\ f.formFieldCount < 4
    THEN "login-form"
    ELSE IF f.hasPasswordField /\ f.hasConfirmPassword /\ f.formFieldCount > 4
    THEN "registration-form"
    ELSE IF f.hasEmailField /\ f.hasTextarea /\ ~f.hasPasswordField
    THEN "contact-form"
    ELSE IF f.hasSearchInput /\ f.hasResultsContainer THEN "search"
    ELSE IF f.hasTable THEN "table"
    ELSE IF f.hasList THEN "list"
    ELSE IF f.hasSingleH1 /\ f.hasMainContent THEN "detail"
    ELSE "generic"

\* classifyPage with the table rule moved in front of the search rule
classifyPageTableFirst(f) ==
    IF f.hasPasswordField /\ ~f.hasConfirmPassword /\ f.formFieldCount <= 4
    THEN "login-form"
    ELSE IF f.hasPasswordField /\ f.hasConfirmPassword /\ f.formFieldCount > 4
    THEN "registration-form"
    ELSE IF f.hasEmailField /\ f.hasTextarea /\ ~f.hasPasswordField
    THEN "contact-form"
    ELSE IF f.hasTable THEN "table"
    ELSE IF f.hasSearchInput /\ f.hasResultsContainer THEN "search"
    ELSE IF f.hasList THEN "list"
    ELSE IF f.hasSingleH1 /\ f.hasMainContent THEN "detail"
    ELSE "generic"

\* classifyPage without its final return: the function falls off its end
classifyPageNoDefault(f) ==
    IF f.hasPasswordField /\ ~f.hasConfirmPassword /\ f.formFieldCount <= 4
    THEN "login-form"
    ELSE IF f.hasPasswordField /\ f.hasConfirmPassword /\ f.formFieldCount > 4
    THEN "registration-form"
    ELSE IF f.hasEmailField /\ f.hasTextarea /\ ~f.hasPasswordField
    THEN "contact-form"
    ELSE IF f.hasSearchInput /\ f.hasResultsContainer THEN "search"
    ELSE IF f.hasTable THEN "table"
    ELSE IF f.hasList THEN "list"
    ELSE IF f.hasSingleH1 /\ f.hasMainContent THEN "detail"
    ELSE "undefined"

classifyPage(f) ==
    IF f.hasPasswordField /\ ~f.hasConfirmPassword /\ f.formFieldCount <= 4
    THEN "login-form"
    ELSE IF f.hasPasswordField /\ f.hasConfirmPassword /\ f.formFieldCount > 4
    THEN "registration-form"
    ELSE IF f.hasEmailField /\ f.hasTextarea /\ ~f.hasPasswordField
    THEN "contact-form"
    ELSE IF f.hasSearchInput /\ f.hasResultsContainer THEN "search"
    ELSE IF f.hasTable THEN "table"
    ELSE IF f.hasList THEN "list"
    ELSE IF f.hasSingleH1 /\ f.hasMainContent THEN "detail"
    ELSE "generic"

Add(cond, n) == IF cond THEN n ELSE 0

\* calculateConfidence with the login match's email increment taken from
\* the field count line (10 instead of 15)
calculateConfidenceEmail10(pageType, f) ==
    LET confidence ==
            CASE pageType = "login-form" ->
                    50 + Add(f.hasPasswordField, 25) + Add(f.hasEmailField, 10)
                       + Add(f.formFieldCount <= 4, 10)
              [] pageType = "registration-form" ->
                    50 + Add(f.hasPasswordField, 20)
                       + Add(f.hasConfirmPassword, 25)
                       + Add(f.formFieldCount > 4, 5)
              [] pageType = "contact-form" ->
                    50 + Add(f.hasEmailField, 20) + Add(f.hasTextarea, 20)
                       + Add(~f.hasPasswordField, 10)
              [] pageType = "search" ->
                    50 + Add(f.hasSearchInput, 25)
                       + Add(f.hasResultsContainer, 25)
              [] pageType = "table" -> 50 + Add(f.hasTable, 40)
              [] pageType = "list" -> 50 + Add(f.hasList, 35)
              [] pageType = "detail" ->
                    50 + Add(f.hasSingleH1, 20) + Add(f.hasMainContent, 15)
                       + Add(f.hasImages, 10)
              [] OTHER -> 30
    IN  Min(100, confidence)

calculateConfidence(pageType, f) ==
    LET confidence ==
            CASE pageType = "login-form" ->
                    50 + Add(f.hasPasswordField, 25) + Add(f.hasEmailField, 15)
                       + Add(f.formFieldCount <= 4, 10)
              [] pageType = "registration-form" ->
                    50 + Add(f.hasPasswordField, 20)
                       + Add(f.hasConfirmPassword, 25)
                       + Add(f.formFieldCount > 4, 5)
              [] pageType = "contact-form" ->
                    50 + Add(f.hasEmailField, 20) + Add(f.hasTextarea, 20)
                       + Add(~f.hasPasswordField, 10)
              [] pageType = "search" ->
                    50 + Add(f.hasSearchInput, 25)
                       + Add(f.hasResultsContainer, 25)
              [] pageType = "table" -> 50 + Add(f.hasTable, 40)
              [] pageType = "list" -> 50 + Add(f.hasList, 35)
              [] pageType = "detail" ->
                    50 + Add(f.hasSingleH1, 20) + Add(f.hasMainContent, 15)
                       + Add(f.hasImages, 10)
              [] OTHER -> 30
    IN  Min(100, confidence)

\* One AssertionTemplate, without its code text
Assertion(type, description) == [type |-> type, description |-> description]

\* The assertions the switch of generateAssertions pushes for a page type
switchAssertions(pageType) ==
    CASE pageType = "login-form" ->
            <<Assertion("visibility", "Verify login form fields are visible"),
              Assertion("form-validation", "Test empty submission shows error"),
              Assertion("form-validation", "Test invalid email validation")>>
      [] pageType = "registration-form" ->
            <<Assertion("visibility",
                        "Verify registration form fields are visible"),
              Assertion("form-validation", "Test password match validation"),
              Assertion("form-validation", "Test required field validation")>>
      [] pageType = "contact-form" ->
            <<Assertion("visibility", "Verify contact form fields are visible"),
              Assertion("form-validation", "Test required fields validation")>>
      [] pageType = "search" ->
            <<Assertion("visibility", "Verify search input is functional"),
              Assertion("visibility", "Verify results appear after search"),
              Assertion("count", "Verify result count")>>
      [] pageType = "table" ->
            <<Assertion("visibility", "Verify table structure"),
              Assertion("count", "Verify table has data rows"),
              Assertion("visibility",
                        "Verify pagination or sorting (if present)")>>
      [] pageType = "list" ->
            <<Assertion("visibility", "Verify list container is visible"),
              Assertion("count", "Verify list has items")>>
      [] pageType = "detail" ->
            <<Assertion("visibility", "Verify page heading exists"),
              Assertion("visibility", "Verify main content is loaded"),
              Assertion("attribute", "Verify images have alt text")>>
      [] OTHER -> <<Assertion("visibility", "Verify page loaded")>>

\* The accessibility audit pushed after the switch
accessibilityAssertion == Assertion("accessibility", "Run accessibility audit")

\* generateAssertions whose default case returns inside the switch
generateAssertionsDefaultReturns(pageType, f) ==
    IF pageType \in PageTypes \ {"generic"}
    THEN Append(switchAssertions(pageType), accessibilityAssertion)
    ELSE switchAssertions(pageType)

generateAssertions(pageType, f) ==
    Append(switchAssertions(pageType), accessibilityAssertion)

\* analyze(), on the features detectFeatures found
analyze(f) ==
    Only({[pageType |-> pageType,
           confidence |-> calculateConfidence(pageType, f),
           suggestedAssertions |-> generateAssertions(pageType, f)] :
          pageType \in {classifyPage(f)}})

----------------------------------------------------------------------------
(* The page analysis of scripts/scaffold-test.js (const pageAnalyzer), on  *)
(* the features it shares with the extension and its hasUsernameField.     *)

\* pageAnalyzer.classifyPage of scaffold-test.js
scaffoldClassifyPage(f, username) ==
    IF f.hasPasswordField /\ ~f.hasConfirmPassword /\ f.formFieldCount <= 4
       /\ (f.hasEmailField \/ username)
    THEN "login-form"
    ELSE IF f.hasPasswordField /\ f.hasConfirmPassword
    THEN "registration-form"
    ELSE IF f.hasEmailField /\ f.hasTextarea /\ ~f.hasPasswordField
    THEN "contact-form"
    ELSE IF f.hasSearchInput THEN "search"
    ELSE IF f.hasTable THEN "table"
    ELSE IF f.hasList THEN "list"
    ELSE IF f.hasSingleH1 /\ f.hasMainContent THEN "detail"
    ELSE "generic"

\* pageAnalyzer.calculateConfidence of scaffold-test.js
scaffoldCalculateConfidence(pageType, f, username) ==
    LET confidence ==
            CASE pageType = "login-form" ->
                    50 + Add(f.hasPasswordField, 25)
                       + Add(f.hasEmailField \/ username, 15)
                       + Add(f.formFieldCount <= 4, 10)
              [] pageType = "registration-form" ->
                    50 + Add(f.hasPasswordField, 20)
                       + Add(f.hasConfirmPassword, 25)
                       + Add(f.formFieldCount > 4, 5)
              [] pageType = "contact-form" ->
                    50 + Add(f.hasEmailField, 20) + Add(f.hasTextarea, 20)
                       + Add(~f.hasPasswordField, 10)
              [] pageType = "search" ->
                    50 + Add(f.hasSearchInput, 30)
                       + Add(f.hasResultsContainer, 20)
              [] pageType = "table" -> 50 + Add(f.hasTable, 40)
              [] pageType = "list" -> 50 + Add(f.hasList, 35)
              [] pageType = "detail" ->
                    50 + Add(f.hasSingleH1, 20) + Add(f.hasMainContent, 15)
              [] OTHER -> 30
    IN  Min(100, confidence)

\* pageAnalyzer.analyze(page) of scaffold-test.js, on the features its
\* page.evaluate found
scaffoldAnalyze(f, username) ==
    Only({[pageType |-> pageType,
           confidence |-> scaffoldCalculateConfidence(pageType, f, username)] :
          pageType \in {scaffoldClassifyPage(f, username)}})

InitPage ==
    /\ features = NoFeatures
    /\ analysis = <<>>
    /\ hasUsernameField = FALSE
    /\ ported = <<>>

\* The page changes so that one boolean probe of detectFeatures flips
FeatureChanged(name) ==
    /\ features' = [features EXCEPT ![name] = ~features[name]]
    /\ analysis' = <<>>
    /\ ported' = <<>>
    /\ UNCHANGED hasUsernameField
    /\ UNCHANGED <<selVars, detectVars, globVars, recVars, bgVars,
                   toBackground>>

\* The page's forms gain or lose fields
FieldsChanged(n) ==
    /\ n # features.formFieldCount
    /\ features' = [features EXCEPT !.formFieldCount = n]
    /\ analysis' = <<>>
    /\ ported' = <<>>
    /\ UNCHANGED hasUsernameField
    /\ UNCHANGED <<selVars, detectVars, globVars, recVars, bgVars,
                   toBackground>>

\* The page gains or loses its username field
UsernameFieldChanged ==
    /\ hasUsernameField' = ~hasUsernameField
    /\ analysis' = <<>>
    /\ ported' = <<>>
    /\ UNCHANGED features
    /\ UNCHANGED <<selVars, detectVars, globVars, recVars, bgVars,
                   toBackground>>

\* pageAnalyzer.analyze() of the extension on the current page
Analyze ==
    /\ Len(analysis) < MaxCalls
    /\ analysis' = Append(analysis, analyze(features))
    /\ UNCHANGED <<features, hasUsernameField, ported>>
    /\ UNCHANGED <<selVars, detectVars, globVars, recVars, bgVars,
                   toBackground>>

\* pageAnalyzer.analyze(page) of scaffold-test.js on the current page
ScaffoldAnalyze ==
    /\ Len(ported) < MaxCalls
    /\ ported' = Append(ported, scaffoldAnalyze(features, hasUsernameField))
    /\ UNCHANGED <<features, hasUsernameField, analysis>>
    /\ UNCHANGED <<selVars, detectVars, globVars, recVars, bgVars,
                   toBackground>>

NextPage ==
    \/ \E name \in BoolFeatures : FeatureChanged(name)
    \/ \E n \in 0..MaxFields : FieldsChanged(n)
    \/ UsernameFieldChanged
    \/ Analyze
    \/ ScaffoldAnalyze

----------------------------------------------------------------------------
(* PageAnalyzer.detectFeatures: the table and list probes, on the tables   *)
(* and the list containers of the document, each in document order.        *)

\* What isDataTable reads of a table element: whether 'thead th, th'
\* matches inside it, how many rows 'tbody tr, tr' matches, its role
\* attribute ("" when it has none)
Table(hasHeaderCell, rows, role) ==
    [hasHeaderCell |-> hasHeaderCell, rows |-> rows, role |-> role]

TableRoles == {"", "presentation", "none"}

TableKinds ==
    {Table(h, r, role) : h \in BOOLEAN, r \in 1..2, role \in TableRoles}

\* What hasRepeatingElements reads of a child of a container: its tag name
\* and the length of its class list
Child(tagName, classCount) == [tagName |-> tagName, classCount |-> classCount]

ChildKinds == {Child("LI", 0), Child("LI", 3), Child("DIV", 0)}

EmptyPage == [tables |-> <<>>, containers |-> <<>>]

isDataTable(table) ==
    LET hasHeaders == table.hasHeaderCell
        hasMultipleRows == table.rows > 1
        isLayoutTable == table.role = "presentation" \/ table.role = "none"
    IN  hasHeaders /\ hasMultipleRows /\ ~isLayoutTable

hasTable(tables) == Len(tables) > 0 /\ isDataTable(tables[1])

Abs(n) == IF n < 0 THEN 0 - n ELSE n

\* The children after the first that have the first child's tag name and
\* a class count within 2 of the first child's
similarCount(children) ==
    Cardinality({i \in 2..Len(children) :
                    /\ children[i].tagName = children[1].tagName
                    /\ Abs(children[i].classCount - children[1].classCount)
                          <= 2})

\* The test of one container in the loop of hasRepeatingElements
\* (similarCount / (children.length - 1) > 0.5)
isRepeating(children) ==
    /\ ~(Len(children) < 3)
    /\ 2 * similarCount(children) > Len(children) - 1

hasRepeatingElements(containers) ==
    \E c \in DOMAIN containers : isRepeating(containers[c])

\* The two probes of detectFeatures that look at structure
detectFeatures(pg) ==
    [hasTable |-> hasTable(pg.tables),
     hasList |-> hasRepeatingElements(pg.containers)]

InitDetect == page = EmptyPage /\ detected = <<>>

\* The document gains a table, after the tables it has
TableAdded(table) ==
    /\ Len(page.tables) < MaxTables
    /\ page' = [page EXCEPT !.tables = Append(@, table)]
    /\ detected' = <<>>
    /\ UNCHANGED <<selVars, pageVars, globVars, recVars, bgVars,
                   toBackground>>

\* The document gains an element that the list container query matches
ContainerAdded ==
    /\ Len(page.containers) < MaxContainers
    /\ page' = [page EXCEPT !.containers = Append(@, <<>>)]
    /\ detected' = <<>>
    /\ UNCHANGED <<selVars, pageVars, globVars, recVars, bgVars,
                   toBackground>>

\* A list container gains a last child
ChildAdded(c, child) ==
    /\ Len(page.containers[c]) < MaxChildren
    /\ page' = [page EXCEPT !.containers[c] = Append(@, child)]
    /\ detected' = <<>>
    /\ UNCHANGED <<selVars, pageVars, globVars, recVars, bgVars,
                   toBackground>>

\* analyze() runs detectFeatures on the current document
DetectFeatures ==
    /\ Len(detected) < MaxCalls
    /\ detected' = Append(detected, detectFeatures(page))
    /\ UNCHANGED page
    /\ UNCHANGED <<selVars, pageVars, globVars, recVars, bgVars,
                   toBackground>>

NextDetect ==
    \/ \E table \in TableKinds : TableAdded(table)
    \/ ContainerAdded
    \/ \E c \in DOMAIN page.containers, child \in ChildKinds :
          ChildAdded(c, child)
    \/ DetectFeatures

----------------------------------------------------------------------------
(* EventRecorder and Highlighter (content/event-recorder.ts), on a page    *)
(* with a text field, a password field, a button and the form around them, *)
(* beside the elements the Highlighter injects: the highlight overlay, the *)
(* tooltip, the recording indicator and the <span> inside the indicator    *)
(* that holds its label.  Time is Date.now() in milliseconds; the window's *)
(* timers are kept in the order setTimeout armed them, and since every     *)
(* timer of the recorder has the same delay this is the order they are due *)
(* in.  An action stands for the selector and the element info createAction*)
(* puts into it by the element it was created for; an action without a     *)
(* value has the empty value.                                              *)

INPUT_DEBOUNCE == 500
MaxTime == 750
MaxTyped == 1
MaxTimers == 3
MaxRecorded == 1
MaxStarts == 1

PageElements ==
    {"field", "secret", "save", "form", "highlight", "tooltip", "indicator",
     "label"}

Fields == {"field", "secret"}

tagNameOf(element) ==
    CASE element \in Fields -> "input"
      [] element = "save" -> "button"
      [] element = "form" -> "form"
      [] element = "label" -> "span"
      [] OTHER -> "div"

inputType(element) ==
    CASE element = "field" -> "text"
      [] element = "secret" -> "password"
      [] OTHER -> ""

RecorderPrefix ==
    <<"c", "y", "p", "r", "e", "s", "s", "-", "r", "e", "c", "o", "r", "d",
      "e", "r", "-">>

\* Element.id: the ids the Highlighter gives its three elements; the page's
\* own elements and the indicator's inner elements have none
elementId(element) ==
    CASE element = "highlight" ->
            RecorderPrefix \o <<"h", "i", "g", "h", "l", "i", "g", "h", "t">>
      [] element = "tooltip" ->
            RecorderPrefix \o <<"t", "o", "o", "l", "t", "i", "p">>
      [] element = "indicator" ->
            RecorderPrefix \o <<"i", "n", "d", "i", "c", "a", "t", "o", "r">>
      [] OTHER -> Empty

\* Node.parentElement, for the elements the Highlighter injects
parentElement(element) == IF element = "label" THEN "indicator" ELSE "body"

\* The overlay and the tooltip have pointer-events: none, so that no user
\* event has them as its target; the indicator and what it holds are there
\* from start() to stop()
EventTargets ==
    {e \in PageElements :
        /\ e \notin {"highlight", "tooltip"}
        /\ e \in {"indicator", "label"} => isRecording}

\* What pageAnalyzer.analyze() makes of this page
PageType == "login-form"

EnterKey == <<"{", "e", "n", "t", "e", "r", "}">>

Action(type, element, value, timestamp) ==
    [type |-> type, element |-> element, value |-> value,
     timestamp |-> timestamp]

shouldRecord == isRecording /\ ~isPaused

isRecorderElement(element) == StartsWith(elementId(element), RecorderPrefix)

\* Map.get, Map.set and Map.delete on pendingInputs, a sequence of entries
\* in insertion order
pendingHas(pending, element) ==
    \E i \in DOMAIN pending : pending[i].element = element

pendingGet(pending, element) ==
    pending[CHOOSE i \in DOMAIN pending : pending[i].element = element]

pendingDelete(pending, element) ==
    SelectSeq(pending, LAMBDA p : p.element # element)

pendingSet(pending, element, value, timestamp) ==
    LET entry == [element |-> element, value |-> value,
                  timestamp |-> timestamp]
    IN  IF pendingHas(pending, element)
        THEN [i \in DOMAIN pending |->
                 IF pending[i].element = element THEN entry ELSE pending[i]]
        ELSE Append(pending, entry)

\* The fields of the recorder a flush works on, with the actions it hands
\* to recordAction
Recorder ==
    [pendingInputs |-> pendingInputs, lastInputValues |-> lastInputValues,
     inputTimers |-> inputTimers, actions |-> <<>>]

\* flushInputForElement: an absent lastInputValues entry and an empty one
\* both give '' (`get(element) || ''`)
flushInputForElement(r, element) ==
    IF ~pendingHas(r.pendingInputs, element)
    THEN r
    ELSE LET pending == pendingGet(r.pendingInputs, element)
             lastValue == r.lastInputValues[element]
         IN  IF pending.value = lastValue
             THEN [r EXCEPT
                     !.pendingInputs = pendingDelete(@, element)]
             ELSE [r EXCEPT
                     !.lastInputValues[element] = pending.value,
                     !.pendingInputs = pendingDelete(@, element),
                     !.inputTimers[element] = 0,
                     !.actions = Append(@, Action("type", element,
                                                  pending.value,
                                                  pending.timestamp))]

RECURSIVE flushEach(_, _)
flushEach(r, entries) ==
    IF entries = <<>>
    THEN r
    ELSE flushEach(IF tagNameOf(Head(entries).element) \in {"input", "textarea"}
                   THEN flushInputForElement(r, Head(entries).element)
                   ELSE r,
                   Tail(entries))

flushPendingInputs(r) == flushEach(r, r.pendingInputs)

\* clearTimeout
clearTimeout(armed, id) == SelectSeq(armed, LAMBDA t : t.id # id)

\* recordAction: the action goes to the service worker as ACTION_RECORDED
sendActions(channel, actions) ==
    channel \o [i \in DOMAIN actions |->
                   [type |-> "ACTION_RECORDED", payload |-> actions[i]]]

\* The burst of input events in progress on the text field: whether there
\* is one, how many actions were recorded before its first event, the time
\* of its last event so far, and the value last recorded before it.  An
\* input event goes on with the burst when it comes less than
\* INPUT_DEBOUNCE after the last one; a click, a submit, an Enter key and a
\* message of the service worker end it.
NoBurst == [active |-> FALSE, from |-> 0, last |-> 0, before |-> Empty]

\* The recorder's fields after a flush, the actions it recorded and their
\* messages
Flush(r) ==
    /\ pendingInputs' = r.pendingInputs
    /\ lastInputValues' = r.lastInputValues
    /\ inputTimers' = r.inputTimers
    /\ recorded' = recorded \o r.actions
    /\ toBackground' = sendActions(toBackground, r.actions)

InitRecorder ==
    /\ isRecording = FALSE
    /\ isPaused = FALSE
    /\ elementValue = [e \in Fields |-> Empty]
    /\ pendingInputs = <<>>
    /\ lastInputValues = [e \in Fields |-> Empty]
    /\ inputTimers = [e \in Fields |-> 0]
    /\ timeouts = <<>>
    /\ timerIds = 0
    /\ now = 0
    /\ recorded = <<>>
    /\ burst = NoBurst
    /\ toBackground = <<>>

\* EventRecorder.start, with the listeners it attaches
start ==
    IF isRecording
    THEN UNCHANGED <<isRecording, isPaused>>
    ELSE isRecording' = TRUE /\ isPaused' = FALSE

\* handleClick
HandleClick(element) ==
    /\ element \in EventTargets
    /\ Len(recorded) < MaxRecorded
    /\ IF \/ ~shouldRecord
          \/ isRecorderElement(element)
          \/ tagNameOf(element) \in {"input", "textarea"}
       THEN UNCHANGED <<pendingInputs, lastInputValues, inputTimers,
                        recorded, toBackground, burst>>
       ELSE /\ \E r \in {flushPendingInputs(Recorder)} :
                  Flush([r EXCEPT !.actions =
                            Append(@, Action("click", element, Empty, now))])
            /\ burst' = NoBurst
    /\ UNCHANGED <<isRecording, isPaused, elementValue, timeouts, timerIds,
                   now>>
    /\ UNCHANGED <<selVars, pageVars, detectVars, globVars, bgVars>>

isPasswordFieldNever(element) == FALSE

\* `target instanceof HTMLInputElement && target.type === 'password'`
isPasswordField(element) ==
    tagNameOf(element) = "input" /\ inputType(element) = "password"

\* The user changes the text of a field to `value`, and handleInput
HandleInput(element, value) ==
    /\ element \in Fields
    /\ elementValue' = [elementValue EXCEPT ![element] = value]
    /\ IF \/ ~shouldRecord
          \/ isRecorderElement(element)
          \/ tagNameOf(element) \notin {"input", "textarea"}
          \/ isPasswordField(element)
       THEN UNCHANGED <<pendingInputs, inputTimers, timeouts, timerIds,
                        burst>>
       ELSE /\ timerIds < MaxTimers
            /\ pendingInputs' = pendingSet(pendingInputs, element, value, now)
            /\ timerIds' = timerIds + 1
            /\ timeouts' =
                  Append(IF inputTimers[element] # 0
                         THEN clearTimeout(timeouts, inputTimers[element])
                         ELSE timeouts,
                         [id |-> timerIds', callback |-> "flush",
                          element |-> element,
                          due |-> now + INPUT_DEBOUNCE])
            /\ inputTimers' = [inputTimers EXCEPT ![element] = timerIds']
            /\ burst' =
                  IF element # "field"
                  THEN burst
                  ELSE IF burst.active /\ now - burst.last < INPUT_DEBOUNCE
                       THEN [burst EXCEPT !.last = now]
                       ELSE [active |-> TRUE, from |-> Len(recorded),
                             last |-> now,
                             before |-> lastInputValues[element]]
    /\ UNCHANGED <<isRecording, isPaused, lastInputValues, now, recorded,
                   toBackground>>
    /\ UNCHANGED <<selVars, pageVars, detectVars, globVars, bgVars>>

\* The texts the user makes of `value` with one key: a character more, or
\* the last character less
Edited(value) ==
    (IF Len(value) < MaxTyped THEN {Append(value, "a")} ELSE {})
       \cup (IF Len(value) > 0
             THEN {SubSeq(value, 1, Len(value) - 1)}
             ELSE {})

\* handleChange: the page has no <select>, no checkbox and no radio button
HandleChange(element) ==
    /\ element \in EventTargets
    /\ UNCHANGED <<recVars, toBackground>>
    /\ UNCHANGED <<selVars, pageVars, detectVars, globVars, bgVars>>

\* handleSubmit
HandleSubmit(element) ==
    /\ element \in EventTargets
    /\ tagNameOf(element) = "form"
    /\ Len(recorded) < MaxRecorded
    /\ IF ~shouldRecord \/ isRecorderElement(element)
       THEN UNCHANGED <<pendingInputs, lastInputValues, inputTimers,
                        recorded, toBackground, burst>>
       ELSE /\ \E r \in {flushPendingInputs(Recorder)} :
                  Flush([r EXCEPT !.actions =
                            Append(@, Action("submit", element, Empty, now))])
            /\ burst' = NoBurst
    /\ UNCHANGED <<isRecording, isPaused, elementValue, timeouts, timerIds,
                   now>>
    /\ UNCHANGED <<selVars, pageVars, detectVars, globVars, bgVars>>

\* `pending.value += '{enter}'` on the entry pendingInputs holds
appendEnter(pending, element) ==
    IF pendingHas(pending, element)
    THEN [i \in DOMAIN pending |->
             IF pending[i].element = element
             THEN [pending[i] EXCEPT !.value = @ \o EnterKey]
             ELSE pending[i]]
    ELSE pending

\* handleKeydown, for the Enter key
HandleKeydown(element) ==
    /\ element \in EventTargets
    /\ IF \/ ~shouldRecord
          \/ isRecorderElement(element)
          \/ tagNameOf(element) \notin {"input", "textarea"}
       THEN UNCHANGED <<pendingInputs, lastInputValues, inputTimers,
                        recorded, toBackground, burst>>
       ELSE /\ \E r \in {flushInputForElement(Recorder, element)} :
                  Flush([r EXCEPT !.pendingInputs = appendEnter(@, element)])
            /\ burst' = IF element = "field" THEN NoBurst ELSE burst
    /\ UNCHANGED <<isRecording, isPaused, elementValue, timeouts, timerIds,
                   now>>
    /\ UNCHANGED <<selVars, pageVars, detectVars, globVars, bgVars>>

\* The timer that is due first fires: the callback handleInput armed, or
\* the one analyzePageAndNotify armed (content/index.ts, here part_003)
Timeout ==
    /\ timeouts # <<>>
    /\ Head(timeouts).due <= now
    /\ timeouts' = Tail(timeouts)
    /\ IF Head(timeouts).callback = "flush"
       THEN Flush(flushInputForElement(Recorder, Head(timeouts).element))
       ELSE /\ toBackground' =
                  Append(toBackground,
                         [type |-> "PAGE_ANALYZED", payload |-> PageType])
            /\ UNCHANGED <<pendingInputs, lastInputValues, inputTimers,
                           recorded>>
    /\ UNCHANGED <<isRecording, isPaused, elementValue, timerIds, now, burst>>
    /\ UNCHANGED <<selVars, pageVars, detectVars, globVars, bgVars>>

\* Time passes, half a debounce delay at a time, and no timer is late
Tick ==
    /\ now < MaxTime
    /\ timeouts # <<>> => Head(timeouts).due > now
    /\ now' = now + INPUT_DEBOUNCE \div 2
    /\ UNCHANGED <<isRecording, isPaused, elementValue, pendingInputs,
                   lastInputValues, inputTimers, timeouts, timerIds,
                   recorded, burst, toBackground>>
    /\ UNCHANGED <<selVars, pageVars, detectVars, globVars, bgVars>>

\* analyzePageAndNotify (part_003): the analysis is sent half a second later
analyzePageAndNotify(armed) ==
    Append(armed, [id |-> 0, callback |-> "analyze", element |-> "body",
                   due |-> now + INPUT_DEBOUNCE])

\* The content script's handleMessage (part_003), with EventRecorder.start,
\* stop, pause and resume
handleMessage(message) ==
    /\    CASE message.type = "START_RECORDING" ->
                  /\ start
                  /\ timeouts' = analyzePageAndNotify(timeouts)
                  /\ burst' = NoBurst
                  /\ UNCHANGED <<pendingInputs, lastInputValues, inputTimers,
                                 recorded, toBackground>>
            [] message.type = "STOP_RECORDING" ->
                  /\ isRecording' = FALSE
                  /\ isPaused' = FALSE
                  /\ timeouts' =
                        SelectSeq(timeouts,
                                  LAMBDA t : \A e \in Fields :
                                                \/ inputTimers[e] = 0
                                                \/ t.id # inputTimers[e])
                  /\ Flush(flushPendingInputs(
                              [Recorder EXCEPT
                                 !.inputTimers = [e \in Fields |-> 0],
                                 !.lastInputValues =
                                    [e \in Fields |-> Empty]]))
                  /\ burst' = NoBurst
            [] message.type = "PAUSE_RECORDING" ->
                  /\ isPaused' = TRUE
                  /\ burst' = NoBurst
                  /\ UNCHANGED <<isRecording, pendingInputs, lastInputValues,
                                 inputTimers, timeouts, recorded,
                                 toBackground>>
            [] message.type = "RESUME_RECORDING" ->
                  /\ isPaused' = FALSE
                  /\ burst' = NoBurst
                  /\ UNCHANGED <<isRecording, pendingInputs, lastInputValues,
                                 inputTimers, timeouts, recorded,
                                 toBackground>>
    /\ UNCHANGED <<elementValue, timerIds, now>>
    /\ UNCHANGED <<tabRecordingState, heap, storage, pc, frame, returned,
                   tabUpdates>>
    /\ UNCHANGED <<selVars, pageVars, detectVars, globVars>>

\* The message of the service worker that arrives next
HandleMessage ==
    /\ toTab # <<>>
    /\ toTab' = Tail(toTab)
    /\ handleMessage(Head(toTab))

----------------------------------------------------------------------------
(* The service worker (background/service-worker.ts) with its             *)
(* StorageManager (background/storage-manager.ts, here part_004), for one  *)
(* tab.  A RecordingState object that startRecording makes and its session *)
(* are one object of the heap, named by its place in it (isRecording is    *)
(* true and currentSession is set on it for good; a session's endTime is   *)
(* <<>> until stopRecording sets it); the object that                      *)
(* stopRecording makes is never written again and is named 0.  A handler   *)
(* is cut where it awaits: a call of chrome.storage.local takes its        *)
(* argument, and takes effect, when it is made, and the handler goes on in *)
(* a later step; an await of chrome.tabs.sendMessage goes on when the      *)
(* content script has answered.                                            *)

MaxSessions == 1
MaxUpdates == 1
MaxReturned == 2

Handlers ==
    {"startRecording", "stopRecording", "onUpdated"}

NoEntry == [has |-> FALSE, state |-> 0]

Entry(state) == [has |-> TRUE, state |-> state]

\* state?.currentSession, state?.isRecording: the RecordingState objects
\* that record are those startRecording made
Records(entry) == entry.has /\ entry.state # 0

\* What chrome.storage.local and a message keep of a session object
Session(id) ==
    [id |-> id, actions |-> heap[id].actions, pageType |-> heap[id].pageType,
     startTime |-> heap[id].startTime, endTime |-> heap[id].endTime]

\* What they keep of a RecordingState object
RecordingState(state) ==
    IF state = 0
    THEN [isRecording |-> FALSE, isPaused |-> FALSE, currentSession |-> <<>>]
    ELSE [isRecording |-> TRUE, isPaused |-> heap[state].isPaused,
          currentSession |-> <<Session(state)>>]

InitBackground ==
    /\ tabRecordingState = NoEntry
    /\ heap = <<>>
    /\ storage = [sessions |-> <<>>, currentSession |-> <<>>,
                  recordingState |-> <<RecordingState(0)>>]
    /\ toTab = <<>>
    /\ pc = [h \in Handlers |-> "idle"]
    /\ frame = [h \in Handlers |-> 0] @@ [sessions |-> <<>>]
    /\ returned = <<>>
    /\ tabUpdates = 0

\* chrome.tabs.sendMessage, and whether the content script has answered
sendMessage(handler, type) ==
    toTab' = Append(toTab, [type |-> type, from |-> handler])

Answered(handler) == \A i \in DOMAIN toTab : toTab[i].from # handler

Goto(handler, label) == pc' = [pc EXCEPT ![handler] = label]

\* startRecording: the session and the state are made and kept for the tab,
\* setCurrentSession
StartRecording ==
    /\ pc["startRecording"] = "idle"
    /\ Len(heap) < MaxSessions
    /\ heap' = Append(heap, [isPaused |-> FALSE, actions |-> <<>>,
                             pageType |-> "", startTime |-> now,
                             endTime |-> <<>>])
    /\ tabRecordingState' = Entry(Len(heap'))
    /\ frame' = [frame EXCEPT !["startRecording"] = Len(heap')]
    /\ storage' = [storage EXCEPT !.currentSession =
                      <<[id |-> Len(heap'), actions |-> <<>>,
                         pageType |-> "", startTime |-> now,
                         endTime |-> <<>>]>>]
    /\ Goto("startRecording", "setRecordingState")
    /\ UNCHANGED <<toTab, returned, tabUpdates>>
    /\ UNCHANGED <<selVars, pageVars, detectVars, globVars, recVars,
                   toBackground>>

\* startRecording, after an await
StartRecordingResumes ==
    /\ CASE pc["startRecording"] = "setRecordingState" ->
               /\ storage' = [storage EXCEPT !.recordingState =
                                <<RecordingState(frame["startRecording"])>>]
               /\ Goto("startRecording", "sendMessage")
               /\ UNCHANGED toTab
         [] pc["startRecording"] = "sendMessage" ->
               /\ sendMessage("startRecording", "START_RECORDING")
               /\ Goto("startRecording", "updateBadge")
               /\ UNCHANGED storage
         [] pc["startRecording"] = "updateBadge" ->
               /\ Answered("startRecording")
               /\ Goto("startRecording", "idle")
               /\ UNCHANGED <<storage, toTab>>
         [] OTHER -> FALSE
    /\ UNCHANGED <<tabRecordingState, heap, frame, returned, tabUpdates>>
    /\ UNCHANGED <<selVars, pageVars, detectVars, globVars, recVars,
                   toBackground>>

\* saveSession, after its getAllSessions
saveSession(sessions, session) ==
    IF \E i \in DOMAIN sessions : sessions[i].id = session.id
    THEN [i \in DOMAIN sessions |->
             IF sessions[i].id = session.id THEN session ELSE sessions[i]]
    ELSE Append(sessions, session)

\* stopRecording up to the read of saveSession
StopRecording ==
    /\ pc["stopRecording"] = "idle"
    /\ Len(returned) < MaxReturned
    /\ IF ~Records(tabRecordingState)
       THEN /\ returned' = Append(returned, <<>>)
            /\ UNCHANGED <<heap, frame, pc>>
       ELSE /\ heap' = [heap EXCEPT
                          ![tabRecordingState.state].endTime = <<now>>]
            /\ frame' = [frame EXCEPT
                           !["stopRecording"] = tabRecordingState.state,
                           !["sessions"] = storage.sessions]
            /\ Goto("stopRecording", "saveSession")
            /\ UNCHANGED returned
    /\ UNCHANGED <<tabRecordingState, storage, toTab, tabUpdates>>
    /\ UNCHANGED <<selVars, pageVars, detectVars, globVars, recVars,
                   toBackground>>

\* stopRecording, after an await
StopRecordingResumes ==
    /\ CASE pc["stopRecording"] = "saveSession" ->
               /\ storage' = [storage EXCEPT !.sessions =
                                saveSession(frame["sessions"],
                                            Session(frame["stopRecording"]))]
               /\ Goto("stopRecording", "reset")
               /\ UNCHANGED <<tabRecordingState, toTab, returned>>
         [] pc["stopRecording"] = "reset" ->
               /\ tabRecordingState' = Entry(0)
               /\ storage' = [storage EXCEPT !.currentSession = <<>>]
               /\ Goto("stopRecording", "setRecordingState")
               /\ UNCHANGED <<toTab, returned>>
         [] pc["stopRecording"] = "setRecordingState" ->
               /\ storage' = [storage EXCEPT !.recordingState =
                                <<RecordingState(0)>>]
               /\ Goto("stopRecording", "sendMessage")
               /\ UNCHANGED <<tabRecordingState, toTab, returned>>
         [] pc["stopRecording"] = "sendMessage" ->
               /\ sendMessage("stopRecording", "STOP_RECORDING")
               /\ Goto("stopRecording", "updateBadge")
               /\ UNCHANGED <<tabRecordingState, storage, returned>>
         [] pc["stopRecording"] = "updateBadge" ->
               /\ Answered("stopRecording")
               /\ returned' =
                     Append(returned, <<Session(frame["stopRecording"])>>)
               /\ Goto("stopRecording", "idle")
               /\ UNCHANGED <<tabRecordingState, storage, toTab>>
         [] OTHER -> FALSE
    /\ UNCHANGED <<heap, frame, tabUpdates>>
    /\ UNCHANGED <<selVars, pageVars, detectVars, globVars, recVars,
                   toBackground>>

\* recordAction and handlePageAnalyzed, for the message of the content
\* script that arrives next; nothing but their return follows their await
OnMessage ==
    /\ toBackground # <<>>
    /\ toBackground' = Tail(toBackground)
    /\ \E message \in {Head(toBackground)}, state \in {tabRecordingState.state} :
          IF /\ Records(tabRecordingState)
             /\ message.type = "ACTION_RECORDED" => ~heap[state].isPaused
          THEN /\ heap' =
                     IF message.type = "ACTION_RECORDED"
                     THEN [heap EXCEPT ![state].actions =
                              Append(@, message.payload)]
                     ELSE [heap EXCEPT ![state].pageType = message.payload]
               /\ storage' = [storage EXCEPT !.currentSession =
                                <<[Session(state) EXCEPT
                                     !.actions = heap'[state].actions,
                                     !.pageType = heap'[state].pageType]>>]
          ELSE UNCHANGED <<heap, storage>>
    /\ UNCHANGED <<tabRecordingState, toTab, pc, frame, returned, tabUpdates>>
    /\ UNCHANGED <<selVars, pageVars, detectVars, globVars, recVars>>

\* The navigation action the tabs.onUpdated listener records
NavigationAction == Action("navigate", "window", Empty, now)

\* chrome.tabs.onUpdated with status 'complete', up to its sendMessage; the
\* content script that answers is the one of the page as it is
OnUpdated ==
    /\ pc["onUpdated"] = "idle"
    /\ tabUpdates < MaxUpdates
    /\ tabUpdates' = tabUpdates + 1
    /\ IF /\ Records(tabRecordingState)
          /\ ~heap[tabRecordingState.state].isPaused
       THEN /\ sendMessage("onUpdated", "START_RECORDING")
            /\ frame' = [frame EXCEPT !["onUpdated"] = tabRecordingState.state]
            /\ Goto("onUpdated", "push")
       ELSE UNCHANGED <<toTab, frame, pc>>
    /\ UNCHANGED <<tabRecordingState, heap, storage, returned>>
    /\ UNCHANGED <<selVars, pageVars, detectVars, globVars, recVars,
                   toBackground>>

\* The listener after its await: the state it read before is the one it
\* pushes to
OnUpdatedResumes ==
    /\ pc["onUpdated"] = "push"
    /\ Answered("onUpdated")
    /\ heap' = [heap EXCEPT ![frame["onUpdated"]].actions =
                   Append(@, NavigationAction)]
    /\ storage' = [storage EXCEPT !.currentSession =
                      <<[Session(frame["onUpdated"]) EXCEPT
                           !.actions = heap'[frame["onUpdated"]].actions]>>]
    /\ Goto("onUpdated", "idle")
    /\ UNCHANGED <<tabRecordingState, toTab, frame, returned, tabUpdates>>
    /\ UNCHANGED <<selVars, pageVars, detectVars, globVars, recVars,
                   toBackground>>

\* The page analyses that are on their way to the service worker
Analyses ==
    Len(SelectSeq(timeouts, LAMBDA t : t.callback = "analyze"))
       + Len(SelectSeq(toBackground, LAMBDA m : m.type = "PAGE_ANALYZED"))

\* The service worker's chrome.tabs.sendMessage calls, as the content
\* script sees them: any of the four messages, at any time
TabMessage(type) ==
    /\ type = "START_RECORDING" => Analyses < MaxStarts
    /\ handleMessage([type |-> type, from |-> "serviceWorker"])
    /\ UNCHANGED toTab

MessageTypes ==
    {"START_RECORDING", "STOP_RECORDING", "PAUSE_RECORDING",
     "RESUME_RECORDING"}

\* The content script, with the page's user and the messages of a service
\* worker that sends what it likes
NextRec ==
    \/ \E element \in PageElements : HandleClick(element)
    \/ \E element \in Fields :
          \E value \in Edited(elementValue[element]) :
             HandleInput(element, value)
    \/ \E element \in PageElements : HandleChange(element)
    \/ \E element \in PageElements : HandleSubmit(element)
    \/ \E element \in PageElements : HandleKeydown(element)
    \/ Timeout
    \/ Tick
    \/ \E type \in MessageTypes : TabMessage(type)

\* The service worker's handlers, with a content script whose user types
\* one character into the text field
NextBg ==
    \/ timerIds = 0 /\ HandleInput("field", <<"a">>)
    \/ Timeout
    \/ Tick
    \/ HandleMessage
    \/ StartRecording
    \/ StartRecordingResumes
    \/ StopRecording
    \/ StopRecordingResumes
    \/ OnMessage
    \/ OnUpdated
    \/ OnUpdatedResumes

----------------------------------------------------------------------------
(* Properties of the selector generator.                                   *)

\* The results generate has returned (not thrown)
Returned == {i \in DOMAIN results : ~results[i].threw}

\* The priority order of the strategies and their weights, as documented
PriorityOrder ==
    <<"data-testid", "data-cy", "data-test", "aria-label", "role", "id",
      "text", "class", "css-path">>

Weight(strategy) ==
    CASE strategy \in {"data-testid", "data-cy", "data-test"} -> 100
      [] strategy = "aria-label" -> 95
      [] strategy = "role" -> 90
      [] strategy = "id" -> 85
      [] strategy = "text" -> 80
      [] strategy = "class" -> 60
      [] strategy = "css-path" -> 40

\* The candidate of a strategy for the target, when it is unique in the
\* document
UniqueCandidate(strategy) ==
    LET g == generator(strategy, doc, target, excludedPatterns)
    IN  [unique |-> ~g.threw /\ g.found /\ isUnique(doc, g.sel),
         entry |-> Alternative(g.sel, strategy, Weight(strategy))]

\* The unique candidates of the target in priority order
UniqueCandidates ==
    LET all == [i \in DOMAIN PriorityOrder |->
                    UniqueCandidate(PriorityOrder[i])]
        kept == FilterSeq(all, LAMBDA c : c.unique)
    IN  [i \in DOMAIN kept |-> kept[i].entry]

(* The elements a selector resolves to in the document: those the query    *)
(* engine finds for its path and, for a :contains("text") selector, those  *)
(* of them whose text contains the text the quoted string stands for.  A   *)
(* selector the engine rejects resolves to nothing.                        *)
Resolve(d, sel) ==
    IF ~PathValid(sel.path) THEN {}
    ELSE IF ~sel.contains THEN querySelectorAll(d, sel.path)
    ELSE IF ~ParseString(sel.text).ok THEN {}
    ELSE {n \in querySelectorAll(d, sel.path) :
            Includes(textContent(d, n), ParseString(sel.text).value)}

\* C1 (as claimed): generate never throws and never returns an empty
\* selector, whatever the element and the document are.
C1_NeverThrows ==
    \A i \in DOMAIN results :
        ~results[i].threw /\ SelectorLength(results[i].selector) > 0

\* C2 (as claimed): for an element of the document whose data-testid value
\* no other element carries, generate returns [data-testid="<value>"] with
\* strategy data-testid, confidence 100 and isUnique true.
C2_UniqueTestId ==
    \A i \in DOMAIN results :
        (/\ InDocument(doc, target)
         /\ doc[target].testid # Empty
         /\ \A m \in Nodes(doc) \ {target} :
               doc[m].testid # doc[target].testid)
        => /\ ~results[i].threw
           /\ results[i].selector
                 = Selector(<<AttrOnly("data-testid", doc[target].testid)>>)
           /\ results[i].strategy = "data-testid"
           /\ results[i].confidence = 100
           /\ results[i].isUnique

\* C3: the primary result is the candidate of the first strategy, in the
\* order data-testid, data-cy, data-test, aria-label, role, id, text, class,
\* css-path, whose candidate is unique; the alternatives are the next unique
\* candidates in that order, at most 5, each with its strategy and weight.
C3_PriorityOrder ==
    \A i \in Returned :
        LET unique == UniqueCandidates
        IN  unique # <<>> =>
                /\ results[i].selector = unique[1].selector
                /\ results[i].strategy = unique[1].strategy
                /\ results[i].confidence = unique[1].confidence
                /\ results[i].alternatives
                      = SubSeq(unique, 2, Min(Len(unique), 6))

\* A call returned 5 alternatives although more than 6 strategies had a
\* unique candidate
C3_Witness ==
    \E i \in Returned :
        /\ Len(results[i].alternatives) = 5
        /\ Len(UniqueCandidates) > 6
        /\ results[i].strategy = "data-testid"

C5_Idempotent ==
    [][(results' # results /\ results' # <<>>) =>
            /\ doc' = doc
            /\ excludedPatterns' = excludedPatterns
            /\ results # <<>> =>
                  results'[Len(results')] = results[Len(results)]]_vars

\* generate was called twice on an element with a framework class and a
\* stable class, and returned both times
C5_Witness ==
    /\ Len(results) = 2
    /\ ~results[2].threw
    /\ Len(doc[target].classes) = 2
    /\ isFrameworkClass(excludedPatterns, doc[target].classes[1]).result

\* C6 (as claimed): the confidence of a result depends on its strategy tag
\* only: it is the weight of the strategy, also on the fallback path.
C6_StaticWeight ==
    \A i \in Returned :
        /\ results[i].confidence = Weight(results[i].strategy)
        /\ \A k \in DOMAIN results[i].alternatives :
              results[i].alternatives[k].confidence
                 = Weight(results[i].alternatives[k].strategy)

\* C6 (amended): the confidence is the weight of the strategy, except on
\* the fallback path (no strategy has a unique candidate), whose result is
\* tagged css-path and carries 30, unique or not.
C6_WeightOrFallback ==
    \A i \in Returned :
        /\ UniqueCandidates # <<>>
              => results[i].confidence = Weight(results[i].strategy)
        /\ UniqueCandidates = <<>>
              => /\ results[i].strategy = "css-path"
                 /\ results[i].confidence = 30
        /\ \A k \in DOMAIN results[i].alternatives :
              results[i].alternatives[k].confidence
                 = Weight(results[i].alternatives[k].strategy)

\* The fallback path was returned, unique, with confidence 30
C6_Witness ==
    \E i \in Returned :
        /\ UniqueCandidates = <<>>
        /\ results[i].isUnique
        /\ results[i].confidence = 30
        /\ target # BodyNode

\* The target is a button of the document with a text of its own, without
\* id, aria-label, aria-labelledby, data-testid, data-cy and data-test,
\* whose classes all match an exclusion pattern, and no other button of
\* the document contains its text
PlainTextButton ==
    /\ target # 0
    /\ InDocument(doc, target)
    /\ doc[target].tag = "button"
    /\ doc[target].id = Empty
    /\ doc[target].ariaLabel = Empty /\ doc[target].labelledBy = Empty
    /\ doc[target].testid = Empty
    /\ doc[target].cy = Empty /\ doc[target].test = Empty
    /\ \A k \in DOMAIN doc[target].classes :
          isFrameworkClass(excludedPatterns, doc[target].classes[k]).result
    /\ getDirectTextContent(doc, target) # Empty
    /\ \A m \in Nodes(doc) \ {target} :
          doc[m].tag = "button"
             => ~Includes(textContent(doc, m),
                          getDirectTextContent(doc, target))

\* C14 (as claimed): for such a button generate returns the primary result
\* button:contains("<text>") with strategy text, whatever other elements
\* the document contains.
C14_TextForPlainButton ==
    PlainTextButton
    => \A i \in DOMAIN results :
          /\ ~results[i].threw
          /\ results[i].strategy = "text"
          /\ results[i].selector
                = ContainsSelector(
                     <<TagOnly("button")>>,
                     escapeTextForContains(
                        getDirectTextContent(doc, target)))

\* The target is an element of the document that follows a sibling with
\* the same tag, the same class list and the same non-blank text
SecondOfTwins ==
    /\ target # 0
    /\ InDocument(doc, target)
    /\ Trim(doc[target].text) # Empty
    /\ \E m \in Nodes(doc) :
          /\ m < target
          /\ doc[m].parent = doc[target].parent
          /\ doc[m].tag = doc[target].tag
          /\ doc[m].classes = doc[target].classes
          /\ doc[m].text = doc[target].text

\* The primary entry and the alternatives of a result
Entries(result) ==
    <<Alternative(result.selector, result.strategy, result.confidence)>>
    \o result.alternatives

\* tag:contains("text")
TextOnly(sel) ==
    /\ sel.contains
    /\ Len(sel.path) = 1
    /\ sel.path[1] = TagOnly(sel.path[1].tag)

\* tag.class:contains("text")
TextWithClass(sel) ==
    /\ sel.contains
    /\ Len(sel.path) = 1
    /\ sel.path[1].tag # ""
    /\ sel.path[1].classes # <<>>

AttributeStrategies ==
    {"data-testid", "data-cy", "data-test", "aria-label", "role", "id"}

DynamicIds ==
    {V_hexHash, V_digits, V_prefixNumber, V_reactId, V_ember1, V_uiId,
     V_extId, V_prefixHash}

\* The ids of the page that have none of these shapes
StaticIds == AttributeValues.id \ DynamicIds

\* No other element of the document has the target's id
IdUniqueInDocument ==
    /\ InDocument(doc, target)
    /\ \A m \in Nodes(doc) \ {target} :
          InDocument(doc, m) => doc[m].id # doc[target].id

\* C16: for an element whose id has a dynamic shape no primary result and
\* no alternative has strategy id, unique as the id may be; for an element
\* whose id has none of the shapes and is unique in the document, the
\* result holds the id candidate #<id>, which resolves to the element.
C16_DynamicIdNeverUsed ==
    target # 0
    => \A i \in Returned :
          /\ doc[target].id \in DynamicIds
                => \A k \in DOMAIN Entries(results[i]) :
                      Entries(results[i])[k].strategy # "id"
          /\ (doc[target].id \in StaticIds /\ IdUniqueInDocument)
                => \E k \in DOMAIN Entries(results[i]) :
                      LET entry == Entries(results[i])[k]
                      IN  /\ entry.strategy = "id"
                          /\ entry.confidence = 85
                          /\ Len(entry.selector.path) = 1
                          /\ entry.selector.path[1].idRaw # Empty
                          /\ doc[target].id = V_main
                                => entry.selector.path[1].idRaw = V_main
                          /\ Resolve(doc, entry.selector) = {target}

\* generate was called on an element of the document whose id :r0: no
\* other element has, and on no call gave an id entry
C16_Witness ==
    /\ target # 0
    /\ doc[target].id = V_reactId
    /\ IdUniqueInDocument
    /\ Returned # {}
    /\ \A i \in Returned : results[i].strategy = "css-path"

\* Whether the string is the glob pattern with every '*' replaced by some
\* character sequence, possibly empty; every other character of the
\* pattern stands for itself
RECURSIVE GlobMatches(_, _)
GlobMatches(pattern, s) ==
    IF pattern = <<>> THEN s = <<>>
    ELSE IF Head(pattern) = "*"
    THEN \E k \in 0..Len(s) :
            GlobMatches(Tail(pattern), SubSeq(s, k + 1, Len(s)))
    ELSE /\ s # <<>>
         /\ Head(s) = Head(pattern)
         /\ GlobMatches(Tail(pattern), Tail(s))

\* C17 (as claimed): with any configured pattern list, a class name is
\* treated as framework-generated exactly when it matches at least one
\* pattern of the list as a full-string glob.
C17_FullStringGlob ==
    \A i \in DOMAIN tested :
        tested[i].result
           = (\E k \in DOMAIN settings :
                 GlobMatches(settings[k], tested[i].className))

\* The classes of the target that match no exclusion pattern
StableClassesOfTarget ==
    {doc[target].classes[k] : k \in
        {j \in DOMAIN doc[target].classes :
            ~isFrameworkClass(excludedPatterns,
                              doc[target].classes[j]).result}}

\* The elements of the document with the target's tag that carry all the
\* classes of the set
WithTagAndClasses(S) ==
    {m \in Nodes(doc) :
        /\ InDocument(doc, m)
        /\ doc[m].tag = doc[target].tag
        /\ \A c \in S : \E k \in DOMAIN doc[m].classes : doc[m].classes[k] = c}

\* C19 (as claimed): whenever some set of one, two or three stable classes
\* of the element, combined with its tag name, is unique in the document,
\* getStableClassSelector returns a selector, and that selector is unique.
C19_ClassCombinationFound ==
    (target # 0 /\ Returned # {})
    => ((\E S \in SUBSET StableClassesOfTarget :
            /\ Cardinality(S) \in 1..3
            /\ WithTagAndClasses(S) = {target})
        => \E g \in {getStableClassSelector(doc, target, excludedPatterns)} :
              /\ g.found
              /\ Cardinality(Resolve(doc, g.sel)) = 1)

\* C26 (as claimed): whenever generate, called with an element of the
\* document, returns isUnique true, the one element its selector resolves
\* to is that element, and so for every alternative; a role selector built from the
\* element's implicit role never resolves to another element that carries
\* the role explicitly.
C26_ResolvesToTarget ==
    (target # 0 /\ InDocument(doc, target))
    => \A i \in Returned :
          /\ results[i].isUnique
                => Resolve(doc, results[i].selector) = {target}
          /\ \A k \in DOMAIN results[i].alternatives :
                Resolve(doc, results[i].alternatives[k].selector) = {target}

----------------------------------------------------------------------------
(* Properties of the page analyzer.                                        *)

\* The ordered rule list of the classification, as documented: each rule is
\* a condition on the features and the page type it gives
Rules(f) ==
    <<[matches |-> f.hasPasswordField /\ ~f.hasConfirmPassword
                      /\ f.formFieldCount <= 4,
       type |-> "login-form"],
      [matches |-> f.hasPasswordField /\ f.hasConfirmPassword
                      /\ f.formFieldCount > 4,
       type |-> "registration-form"],
      [matches |-> f.hasEmailField /\ f.hasTextarea /\ ~f.hasPasswordField,
       type |-> "contact-form"],
      [matches |-> f.hasSearchInput /\ f.hasResultsContainer,
       type |-> "search"],
      [matches |-> f.hasTable, type |-> "table"],
      [matches |-> f.hasList, type |-> "list"],
      [matches |-> f.hasSingleH1 /\ f.hasMainContent, type |-> "detail"],
      [matches |-> TRUE, type |-> "generic"]>>

\* The indices of the rules that match
Matching(f) == {k \in DOMAIN Rules(f) : Rules(f)[k].matches}

\* The signals of each page type and their increments, as (present, amount)
Increments(type, f) ==
    CASE type = "login-form" ->
            <<<<f.hasPasswordField, 25>>, <<f.hasEmailField, 15>>,
              <<f.formFieldCount <= 4, 10>>>>
      [] type = "registration-form" ->
            <<<<f.hasPasswordField, 20>>, <<f.hasConfirmPassword, 25>>,
              <<f.formFieldCount > 4, 5>>>>
      [] type = "contact-form" ->
            <<<<f.hasEmailField, 20>>, <<f.hasTextarea, 20>>,
              <<~f.hasPasswordField, 10>>>>
      [] type = "search" ->
            <<<<f.hasSearchInput, 25>>, <<f.hasResultsContainer, 25>>>>
      [] type = "table" -> <<<<f.hasTable, 40>>>>
      [] type = "list" -> <<<<f.hasList, 35>>>>
      [] type = "detail" ->
            <<<<f.hasSingleH1, 20>>, <<f.hasMainContent, 15>>,
              <<f.hasImages, 10>>>>
      [] OTHER -> <<>>

RECURSIVE SumPresent(_)
SumPresent(incs) ==
    IF incs = <<>> THEN 0
    ELSE (IF Head(incs)[1] THEN Head(incs)[2] ELSE 0) + SumPresent(Tail(incs))

\* C7: classification is total and deterministic: every call of analyze
\* gives one page type of the closed set of 8, and calls on the same
\* features give the same page type.
C7_TotalDeterministic ==
    \A i \in DOMAIN analysis :
        /\ analysis[i].pageType \in PageTypes
        /\ \A j \in DOMAIN analysis :
              analysis[j].pageType = analysis[i].pageType

\* analyze was called twice on a page on which no rule but the last matches
C7_Witness ==
    /\ Len(analysis) = 2
    /\ Matching(features) = {8}
    /\ features.hasSearchInput /\ features.hasSingleH1
    /\ analysis[2].pageType = "generic"

C9_Confidence ==
    \A i \in DOMAIN analysis :
        LET type == analysis[i].pageType
            sum == 50 + SumPresent(Increments(type, features))
        IN  /\ analysis[i].confidence \in 0..100
            /\ type = "generic" => analysis[i].confidence = 30
            /\ type # "generic" =>
                  analysis[i].confidence = IF sum > 100 THEN 100 ELSE sum
            /\ type = "login-form" =>
                  analysis[i].confidence
                     = IF features.hasEmailField THEN 100 ELSE 85

\* A login form without an email field was analyzed on a page on which
\* the search and table rules match too: two of its three signals count
C9_Witness ==
    /\ analysis # <<>>
    /\ analysis[1].pageType = "login-form"
    /\ ~features.hasEmailField
    /\ features.hasSearchInput /\ features.hasResultsContainer
    /\ features.hasTable
    /\ analysis[1].confidence = 85

\* C10: a page with a password field and an email field, no confirm
\* password field and at most 4 form fields is classified login-form with
\* confidence at least 90, whatever its other features are.
C10_LoginScenario ==
    (/\ features.hasPasswordField
     /\ features.hasEmailField
     /\ ~features.hasConfirmPassword
     /\ features.formFieldCount <= 4)
    => \A i \in DOMAIN analysis :
          /\ analysis[i].pageType = "login-form"
          /\ analysis[i].confidence >= 90

\* Such a page with exactly 4 fields that also has a search input with
\* results, a table, a list, a single h1 and main content was analyzed
C10_Witness ==
    /\ analysis # <<>>
    /\ features.hasPasswordField /\ features.hasEmailField
    /\ ~features.hasConfirmPassword
    /\ features.formFieldCount = 4
    /\ features.hasSearchInput /\ features.hasResultsContainer
    /\ features.hasTable /\ features.hasList
    /\ features.hasSingleH1 /\ features.hasMainContent

\* The positions of a suggested assertion list that hold an assertion of
\* the given type
OfType(assertions, type) ==
    {k \in DOMAIN assertions : assertions[k].type = type}

\* C11: the suggested assertions are a list fixed by the page type alone
\* (the list the same page type gets on a page with no features), never
\* empty, whose last entry is the accessibility audit and which holds no
\* other assertion of type accessibility.
C11_AssertionsByType ==
    \A i \in DOMAIN analysis :
        LET list == analysis[i].suggestedAssertions
        IN  /\ list = generateAssertions(analysis[i].pageType, NoFeatures)
            /\ list # <<>>
            /\ OfType(list, "accessibility") = {Len(list)}

\* A generic page that has images and a single h1 was analyzed: its list is
\* the page-loaded check and the audit
C11_Witness ==
    /\ analysis # <<>>
    /\ analysis[1].pageType = "generic"
    /\ features.hasImages /\ features.hasSingleH1
    /\ Len(analysis[1].suggestedAssertions) = 2

\* The tag names of the children of a container
TagNames(children) == {children[i].tagName : i \in DOMAIN children}

\* More than 50% of the children of the container have the given tag name
MajorityTag(children, tagName) ==
    2 * Cardinality({i \in DOMAIN children : children[i].tagName = tagName})
       > Len(children)

\* C12: hasTable is true exactly when some table of the document, the
\* first or a later one, has header cells, more than one row and a role
\* that is neither presentation nor none.
C12_AnyQualifyingTable ==
    \A i \in DOMAIN detected :
        detected[i].hasTable
           = (\E k \in DOMAIN page.tables :
                 /\ page.tables[k].hasHeaderCell
                 /\ page.tables[k].rows > 1
                 /\ page.tables[k].role \notin {"presentation", "none"})

\* C13: hasList is true exactly when some container with at least 3
\* children has more than 50% of its children sharing one tag name,
\* whatever their class lists are and whichever child comes first.
C13_TagMajority ==
    \A i \in DOMAIN detected :
        detected[i].hasList
           = (\E c \in DOMAIN page.containers :
                 /\ Len(page.containers[c]) >= 3
                 /\ \E tagName \in TagNames(page.containers[c]) :
                       MajorityTag(page.containers[c], tagName))

\* C18 (as claimed): a page is classified login-form only when it has a
\* password field together with an email/username field and at most 4 form
\* fields; no page without an email/username field is classified login-form.
C18_LoginNeedsEmail ==
    \A i \in DOMAIN analysis :
        analysis[i].pageType = "login-form"
           => /\ features.hasPasswordField
              /\ features.hasEmailField
              /\ features.formFieldCount <= 4

\* C20 (as claimed): on the same page the analyzer of scaffold-test.js and
\* the extension's PageAnalyzer give the same page type, whatever the
\* analyzer's extra feature hasUsernameField is.
C20_PortEquivalent ==
    \A i \in DOMAIN analysis, j \in DOMAIN ported :
        analysis[i].pageType = ported[j].pageType

----------------------------------------------------------------------------
(* Properties of the event recorder.                                       *)

Unflushed(element) ==
    /\ pendingHas(pendingInputs, element)
    /\ pendingGet(pendingInputs, element).value # lastInputValues[element]

\* C22 (as claimed): when Enter is pressed in a field whose typed text is
\* not flushed yet, the type action for that text has '{enter}' at the end
\* of its value: the action the keydown records has it, or the entry that
\* stays pending has it.
C22_EnterAppended ==
    [][\A element \in Fields :
          (shouldRecord /\ Unflushed(element) /\ HandleKeydown(element))
             => \E text \in {pendingGet(pendingInputs, element).value} :
                   \/ /\ Len(recorded') = Len(recorded) + 1
                      /\ recorded'[Len(recorded')].type = "type"
                      /\ recorded'[Len(recorded')].value = text \o EnterKey
                   \/ /\ recorded' = recorded
                      /\ pendingHas(pendingInputs', element)
                      /\ pendingGet(pendingInputs', element).value
                            = text \o EnterKey]_vars

\* The recorder's own injected elements: the highlight overlay, the tooltip
\* and the recording indicator, with what they hold
InjectedRoots == {"highlight", "tooltip", "indicator"}

RecorderUi ==
    {e \in PageElements :
        e \in InjectedRoots \/ parentElement(e) \in InjectedRoots}

\* C23 (as claimed): no click, change, submit or keydown whose target is
\* the overlay, the tooltip, the recording indicator or an element inside
\* one of them records an action.
C23_RecorderUiNeverRecorded ==
    [][\A element \in RecorderUi :
          (\/ HandleClick(element)
           \/ HandleChange(element)
           \/ HandleSubmit(element)
           \/ HandleKeydown(element))
             => recorded' = recorded]_vars

\* The type actions recorded for the text field since the burst began
BurstActions ==
    SelectSeq(SubSeq(recorded, burst.from + 1, Len(recorded)),
              LAMBDA a : a.type = "type" /\ a.element = "field")

\* The burst has had its last event: INPUT_DEBOUNCE has passed since, and
\* no timer is late
BurstOver ==
    /\ burst.active
    /\ now >= burst.last + INPUT_DEBOUNCE
    /\ \A i \in DOMAIN timeouts : timeouts[i].due > now

\* C24 (as claimed): for a burst of input events on the text field, at
\* most one type action is recorded; once the burst is over that action
\* carries the field's value and the time of the last event of the burst,
\* and there is none when the value equals the value last recorded.
C24_OneTypePerBurst ==
    /\ burst.active => Len(BurstActions) <= 1
    /\ BurstOver =>
          IF elementValue["field"] = burst.before
          THEN BurstActions = <<>>
          ELSE /\ Len(BurstActions) = 1
               /\ BurstActions[1].value = elementValue["field"]
               /\ BurstActions[1].timestamp = burst.last

----------------------------------------------------------------------------
(* Properties of the service worker with the content script.               *)

\* stopRecording has returned a session, no handler is at work, no message
\* is on its way and nothing is pending in the content script
Settled ==
    /\ \E i \in DOMAIN returned : returned[i] # <<>>
    /\ \A h \in Handlers : pc[h] = "idle"
    /\ toTab = <<>>
    /\ toBackground = <<>>
    /\ pendingInputs = <<>>

\* The type actions the content script recorded for text that was typed
\* into the text field while the session was recording: after its start
\* and before the time stopRecording ended it
TypedDuring(session) ==
    {recorded[i] : i \in
        {j \in DOMAIN recorded :
            /\ recorded[j].type = "type"
            /\ recorded[j].element = "field"
            /\ session.endTime # <<>>
            /\ session.startTime <= recorded[j].timestamp
            /\ recorded[j].timestamp < session.endTime[1]}}

Holds(session, action) ==
    \E k \in DOMAIN session.actions : session.actions[k] = action

\* C25 (as claimed): once stopRecording has returned and nothing is in
\* flight, every type action for text typed into the text field while the
\* session recorded is in the session stopRecording returned and in the
\* session it saved, also when the stop came before the debounce timer
\* fired and EventRecorder.stop flushed the text.
C25_TypedInputNotLost ==
    Settled
       => /\ \A i \in DOMAIN returned :
                returned[i] # <<>>
                   => \A action \in TypedDuring(returned[i][1]) :
                         Holds(returned[i][1], action)
          /\ \A i \in DOMAIN storage.sessions :
                \A action \in TypedDuring(storage.sessions[i]) :
                   Holds(storage.sessions[i], action)

\* stopRecording has returned the session, the tab's state in memory is the
\* one it set, and every other handler has run to its end
StoppedAndIdle ==
    /\ returned # <<>>
    /\ returned[Len(returned)] # <<>>
    /\ tabRecordingState = Entry(0)
    /\ \A h \in Handlers : pc[h] = "idle"
    /\ toBackground = <<>>

\* C27 (as claimed): for every interleaving of the service worker's
\* handlers at their awaits, once stopRecording has returned and the other
\* handlers have completed, chrome.storage.local holds no current session
\* and a recording state with isRecording false, as the tab's state in
\* memory has it.
C27_PersistedStateStopped ==
    StoppedAndIdle
       => /\ storage.currentSession = <<>>
          /\ storage.recordingState # <<>>
          /\ ~storage.recordingState[1].isRecording

----------------------------------------------------------------------------
(* Specifications: the selector generator on a page that changes          *)
(* (SpecSel), the two page analyzers on a page whose features change       *)
(* (SpecPage), the table and list probes of detectFeatures on a page whose *)
(* tables and list containers grow (SpecDetect), and the class filter of a *)
(* generator built with a configured pattern list (SpecGlob); the content  *)
(* script under the events of its page and the messages of a service      *)
(* worker that sends what it likes (SpecRec), and the service worker's     *)
(* handlers, interleaved at their awaits, with the content script of a     *)
(* page whose user types one character (SpecBg).                           *)

Init == InitSel /\ InitPage /\ InitDetect /\ InitRecorder /\ InitBackground

\* The generator with its default patterns, before its first call, on an
\* empty page
InitIdle ==
    /\ doc = EmptyDocument
    /\ edits = 0
    /\ settings = DefaultExcludedClassPatterns
    /\ excludedPatterns = NewSelectorGenerator(settings)
    /\ target = 0
    /\ results = <<>>
    /\ tested = <<>>

InitAnalyzer ==
    InitIdle /\ InitPage /\ InitDetect /\ InitRecorder /\ InitBackground

SpecSel == Init /\ [][NextSel]_vars

SpecPage == InitAnalyzer /\ [][NextPage]_vars

SpecDetect == InitAnalyzer /\ [][NextDetect]_vars

InitConfigured ==
    InitGlob /\ InitPage /\ InitDetect /\ InitRecorder /\ InitBackground

SpecGlob == InitConfigured /\ [][NextGlob]_vars

SpecRec == InitAnalyzer /\ [][NextRec]_vars

SpecBg == InitAnalyzer /\ [][NextBg]_vars

====
